---- MODULE Spec2Model ----
(***************************************************************************)
(* Verification model of the lead-qualification and outreach pipeline      *)
(* (kwstx/email_agent).                                                    *)
(*                                                                         *)
(* Part I  (SpecOutreach): the outreach store (contact, outreach, reply,   *)
(*          suppressionlist tables), the sequencer OutreachManager, the    *)
(*          inbox monitor, the compliance sync and the reset_failed        *)
(*          script, with the scheduler's jobs running in their own         *)
(*          database sessions.                                             *)
(*          SpecOverlap runs the two jobs that call OutreachManager.run    *)
(*          statement by statement, SpecOutreach session by session.       *)
(* Part II (SpecRefine, SpecScoring): the scoring model file and the       *)
(*          refiner writing it; the scorer, the enrichers and the          *)
(*          re-scoring engine on the company table.                        *)
(***************************************************************************)
EXTENDS Integers, Sequences, FiniteSets, Bags, TLC

(***************************************************************************)
(* Bounds of the model                                                     *)
(***************************************************************************)
\* number of Contact rows
NumContacts == 2
\* rows the outreach table may hold
MaxOutreach == 3
\* the clock runs over days 0..MaxDay
MaxDay == 3
\* rows the reply table may hold
MaxReplies == 2

(***************************************************************************)
(* Program constants                                                       *)
(***************************************************************************)
SEQUENCE_GAP_DAYS == 3
\* highest stage that has templates (STAGES has keys 1..4)
LAST_TEMPLATE_STAGE == 4

Contacts == 1..NumContacts
NoTime == -1

(***************************************************************************)
(* Strings that the code normalises are sequences of one-character strings *)
(***************************************************************************)
\* str.lower() on one character
LowerChar(ch) ==
    CASE ch = "A" -> "a"
      [] ch = "B" -> "b"
      [] ch = "X" -> "x"
      [] OTHER -> ch

Lower(s) == [i \in 1..Len(s) |-> LowerChar(s[i])]

RECURSIVE LStrip(_)
LStrip(s) == IF s # <<>> /\ Head(s) = " " THEN LStrip(Tail(s)) ELSE s

RECURSIVE RStrip(_)
RStrip(s) ==
    IF s # <<>> /\ s[Len(s)] = " " THEN RStrip(SubSeq(s, 1, Len(s) - 1)) ELSE s

\* str.strip()
Strip(s) == RStrip(LStrip(s))

\* a normalisation that strips and keeps the letter case
NormalizeValue_StripOnly(s) == Strip(s)

\* email.strip().lower()
NormalizeValue(s) == Lower(Strip(s))

HasAt(s) == \E i \in 1..Len(s) : s[i] = "@"

\* email_lower.split("@")[-1]: the part after the last '@'
DomainOf(s) ==
    LET last == CHOOSE i \in 1..Len(s) :
                    s[i] = "@" /\ \A k \in (i + 1)..Len(s) : s[k] # "@"
    IN SubSeq(s, last + 1, Len(s))

\* the e-mail addresses contacts are discovered with; <<>> is "no email"
EmailPool == { <<>>, <<"A", "@", "x">>, <<"b", "@", "x">> }

\* the first contact has an address; the others may have none
EmailChoices(c) == IF c = 1 THEN { <<"A", "@", "x">> }
                   ELSE { <<>>, <<"b", "@", "x">> }

(***************************************************************************)
(* Part I: state of the outreach store and of the scheduler's jobs         *)
(***************************************************************************)
VARIABLES
    \* the clock, in days (datetime.utcnow())
    now,
    \* contact table: [email, status, stage] per contact id
    contacts,
    \* outreach table: row id = index; [contact, stage, status, sent_at]
    outreach,
    \* reply table, as the number of rows per contact and classification
    replies,
    \* suppressionlist table: a bag of rows [type, value, reason]
    suppression,
    \* the job whose session holds SQLite's write lock, or "none"
    dblock,
    \* position of each job that runs OutreachManager.run
    pc,
    \* what is left of the loop the job is in (contacts, then drafts)
    todo,
    \* the job's session: writes made and not yet committed
    pend,
    \* history: how often each outreach row was handed to SMTP successfully
    transmitted,
    \* history: rows transmitted while their address was suppressed
    mailedSuppressed,
    \* history: the message classify_reply_content was last called on from
    \* its text, and the category it returned
    classified,
    \* history: per job, the contacts a reply had been recorded from when the
    \* pass the job is in (or was last in), taken contact by contact, began
    repliedAtBegin

(***************************************************************************)
(* Part II: state of the scoring model file and of the scored companies    *)
(***************************************************************************)
VARIABLES
    \* scoring_config.json on disk: [kind, cfg], kind complete/empty/partial
    cfgFile,
    \* data/config_history: the backup copies, oldest first
    backups,
    \* position of ScoringRefiner.refine / _save_config
    refPc,
    \* the config _save_config is writing
    refNew,
    \* the call refine was last made with and the summary it returned
    lastRefine,
    \* position of run_rescoring
    engPc,
    \* RescoringEngine._last_config_hash
    engHash,
    \* company table
    companies,
    \* companysignallink table: pairs <<company, signal>>
    links,
    \* history: what the last reader of the model file got
    readObs,
    \* history: the last batch scoring run
    lastBatch,
    \* history: whether the refiner persisted a changed model that no
    \* re-scoring cycle has run on yet ("no", "yes", "in_cycle")
    modelUpdated

modelVars ==
    << cfgFile, backups, refPc, refNew, lastRefine, engPc, engHash, companies,
       links, readObs, lastBatch, modelUpdated >>

outreachVars ==
    << now, contacts, outreach, replies, suppression, dblock, pc, todo, pend,
       transmitted, mailedSuppressed, classified, repliedAtBegin >>

\* the two scheduler jobs that call OutreachManager.run
RunJobs == { "outreach_task", "full_pipeline_cycle_task" }

\* the jobs whose sessions the model follows step by step
Jobs == RunJobs \cup { "compliance_sync_task" }

Classifications == { "interest", "deferral", "irrelevance", "referral", "opt_out" }

\* a skip list that leaves out bounced
SkipStatuses_NoBounced == { "completed", "replied", "opt_out", "suppressed" }

\* statuses OutreachManager.run skips
SkipStatuses == { "completed", "replied", "bounced", "opt_out", "suppressed" }

\* statuses that a detected reply does not overwrite
IgnoreStatuses ==
    { "replied", "active_lead", "deferred", "opt_out", "referral_needed",
      "not_interested" }

(***************************************************************************)
(* The store as one value, and a session's view of it                      *)
(***************************************************************************)
Store ==
    [ contacts |-> contacts, outreach |-> outreach, replies |-> replies,
      suppression |-> suppression ]

\* one write of a session applied to a store
ApplyWrite(db, w) ==
    CASE w.op = "contact_status" ->
            [db EXCEPT !.contacts[w.c].status = w.v]
      [] w.op = "contact_stage" ->
            [db EXCEPT !.contacts[w.c].stage = w.v]
      [] w.op = "outreach_insert" ->
            [db EXCEPT !.outreach =
                Append(@, [ contact |-> w.c, stage |-> w.v, status |-> "draft",
                            sent_at |-> NoTime ])]
      [] w.op = "outreach_status" ->
            [db EXCEPT !.outreach[w.c].status = w.v]
      [] w.op = "outreach_sent_at" ->
            [db EXCEPT !.outreach[w.c].sent_at = w.v]
      [] w.op = "suppression_insert" ->
            [db EXCEPT !.suppression = @ (+) SetToBag({ w.v })]

RECURSIVE ApplyAll(_, _)
ApplyAll(db, ws) ==
    IF ws = <<>> THEN db ELSE ApplyAll(ApplyWrite(db, Head(ws)), Tail(ws))

\* what the session of job j reads: the committed store and its own writes
View(j) == ApplyAll(Store, pend[j])

Inserts(ws) == Cardinality({ i \in 1..Len(ws) : ws[i].op = "outreach_insert" })

(***************************************************************************)
(* SuppressionManager                                                      *)
(***************************************************************************)
HasEntry(supp, type, value) ==
    \E e \in BagToSet(supp) : e.type = type /\ e.value = value

\* session.add(SuppressionList(...))
AddEntry(supp, type, value, reason) ==
    supp (+) SetToBag({ [ type |-> type, value |-> value, reason |-> reason ] })

\* an is_suppressed that does not look at the type of an entry
is_suppressed_AnyType(supp, email) ==
    LET email_lower == NormalizeValue(email)
        listed(v) == HasEntry(supp, "email", v) \/ HasEntry(supp, "domain", v)
    IN \/ listed(email_lower)
       \/ /\ HasAt(email_lower)
          /\ DomainOf(email_lower) # <<>>
          /\ listed(DomainOf(email_lower))

\* is_suppressed: exact e-mail match, else the match of its domain
is_suppressed(supp, email) ==
    LET email_lower == NormalizeValue(email)
    IN \/ HasEntry(supp, "email", email_lower)
       \/ /\ HasAt(email_lower)
          /\ DomainOf(email_lower) # <<>>
          /\ HasEntry(supp, "domain", DomainOf(email_lower))

\* suppress_email: the table after the call
suppress_email(supp, email, reason) ==
    LET email_lower == NormalizeValue(email)
    IN IF HasEntry(supp, "email", email_lower)
       THEN supp
       ELSE AddEntry(supp, "email", email_lower, reason)

\* what suppress_email / suppress_domain returns: True when the entry is new
newly_added(supp, type, value) == ~HasEntry(supp, type, NormalizeValue(value))

\* suppress_domain: the table after the call
suppress_domain(supp, domain, reason) ==
    LET domain_lower == NormalizeValue(domain)
    IN IF HasEntry(supp, "domain", domain_lower)
       THEN supp
       ELSE AddEntry(supp, "domain", domain_lower, reason)

\* the contacts with the given status, in id order
RECURSIVE ContactsWithStatus(_, _, _)
ContactsWithStatus(cs, status, c) ==
    IF c > NumContacts THEN <<>>
    ELSE (IF cs[c].status = status THEN <<c>> ELSE <<>>)
         \o ContactsWithStatus(cs, status, c + 1)

RECURSIVE SuppressAll(_, _, _, _)
SuppressAll(supp, cs, ids, reason) ==
    IF ids = <<>> THEN supp
    ELSE SuppressAll(
            IF cs[Head(ids)].email # <<>>
            THEN suppress_email(supp, cs[Head(ids)].email, reason)
            ELSE supp,
            cs, Tail(ids), reason)

\* the loops of sync_from_contacts: how often suppress_email returned True
RECURSIVE CountNew(_, _, _, _)
CountNew(supp, cs, ids, reason) ==
    IF ids = <<>> THEN 0
    ELSE LET email == cs[Head(ids)].email
         IN (IF email # <<>> /\ newly_added(supp, "email", email) THEN 1 ELSE 0)
            + CountNew(IF email # <<>> THEN suppress_email(supp, email, reason)
                       ELSE supp,
                       cs, Tail(ids), reason)

\* a sync that scans the opt_out contacts only
sync_from_contacts_OptOutOnly(supp, cs) ==
    SuppressAll(supp, cs, ContactsWithStatus(cs, "opt_out", 1), "opt_out")

\* a sync that rebuilds the table from the contact statuses
sync_from_contacts_Rebuild(supp, cs) ==
    SuppressAll(SuppressAll(EmptyBag, cs, ContactsWithStatus(cs, "opt_out", 1),
                            "opt_out"),
                cs, ContactsWithStatus(cs, "bounced", 1), "bounced")

\* sync_from_contacts: the table after the call
sync_from_contacts(supp, cs) ==
    LET afterOptOut ==
            SuppressAll(supp, cs, ContactsWithStatus(cs, "opt_out", 1), "opt_out")
    IN SuppressAll(afterOptOut, cs, ContactsWithStatus(cs, "bounced", 1), "bounced")

\* sync_from_contacts: the count it returns
sync_count(supp, cs) ==
    LET afterOptOut ==
            SuppressAll(supp, cs, ContactsWithStatus(cs, "opt_out", 1), "opt_out")
    IN CountNew(supp, cs, ContactsWithStatus(cs, "opt_out", 1), "opt_out")
       + CountNew(afterOptOut, cs, ContactsWithStatus(cs, "bounced", 1), "bounced")

(***************************************************************************)
(* OutreachManager.process_contact                                         *)
(***************************************************************************)
W(op, c, v) == [ op |-> op, c |-> c, v |-> v ]

\* ids of the outreach rows of contact c, in a store
RowsOf(db, c) == { i \in 1..Len(db.outreach) : db.outreach[i].contact = c }

\* select(Outreach).where(contact_id == c).order_by(desc(id)).first(); 0 is None
LastOutreach(db, c) ==
    IF RowsOf(db, c) = {} THEN 0
    ELSE CHOOSE i \in RowsOf(db, c) : \A k \in RowsOf(db, c) : k <= i

\* a select_template_for_stage that finds a template for every stage
HasTemplate_AnyStage(stage) == stage >= 1

\* select_template_for_stage finds a template for stages 1..4 only
HasTemplate(stage) == stage \in 1..LAST_TEMPLATE_STAGE

\* a _generate_draft that leaves contact.outreach_stage as it was
generate_draft_KeepsStage(c, stage) ==
    IF ~HasTemplate(stage)
    THEN << W("contact_status", c, "completed") >>
    ELSE << W("outreach_insert", c, stage) >>

\* a _generate_draft that adds the Outreach record twice
generate_draft_Twice(c, stage) ==
    IF ~HasTemplate(stage)
    THEN << W("contact_status", c, "completed") >>
    ELSE << W("outreach_insert", c, stage), W("outreach_insert", c, stage),
            W("contact_stage", c, stage) >>

\* _generate_draft: the writes it makes
generate_draft(c, stage) ==
    IF ~HasTemplate(stage)
    THEN << W("contact_status", c, "completed") >>
    ELSE << W("outreach_insert", c, stage), W("contact_stage", c, stage) >>

\* a gate that looks for the exact e-mail entry only
Gate_ExactEmailOnly(db, c) ==
    /\ db.contacts[c].email # <<>>
    /\ HasEntry(db.suppression, "email", NormalizeValue(db.contacts[c].email))

\* a gate that gives way to the reply rule: it holds only while the latest
\* Outreach of the contact is not replied
Gate_AfterReplyRule(db, c) ==
    /\ db.contacts[c].email # <<>>
    /\ is_suppressed(db.suppression, db.contacts[c].email)
    /\ ~(LastOutreach(db, c) # 0
          /\ db.outreach[LastOutreach(db, c)].status = "replied")

\* the compliance gate of process_contact: the e-mail is set and suppressed
Gate(db, c) ==
    /\ db.contacts[c].email # <<>>
    /\ is_suppressed(db.suppression, db.contacts[c].email)

\* process_contact: the writes it makes on the session's view db at time t
process_contact(db, c, t) ==
    LET contact == db.contacts[c]
        last == LastOutreach(db, c)
        last_outreach == db.outreach[last]
    IN IF Gate(db, c)
       THEN IF contact.status \notin { "suppressed", "opt_out" }
            THEN << W("contact_status", c, "suppressed") >>
            ELSE <<>>
       ELSE IF last # 0 /\ last_outreach.status = "replied"
       THEN IF contact.status \notin IgnoreStatuses
            THEN << W("contact_status", c, "replied") >>
            ELSE <<>>
       ELSE IF contact.status = "pending"
       THEN IF contact.email # <<>>
            THEN << W("contact_status", c, "active") >> \o generate_draft(c, 1)
            ELSE <<>>
       ELSE IF contact.status = "active"
       THEN IF last = 0
            THEN generate_draft(c, 1)
            ELSE IF last_outreach.status \in { "draft", "queued" }
            THEN <<>>
            ELSE IF last_outreach.status \in { "failed", "bounced" }
            THEN << W("contact_status", c, "bounced") >>
            ELSE IF last_outreach.status = "sent"
            THEN LET fallback == last_outreach.sent_at = NoTime
                     sent_at == IF fallback THEN t ELSE last_outreach.sent_at
                 IN (IF fallback THEN << W("outreach_sent_at", last, t) >>
                     ELSE <<>>)
                    \o (IF t - sent_at >= SEQUENCE_GAP_DAYS
                        THEN generate_draft(c, last_outreach.stage + 1)
                        ELSE <<>>)
            ELSE <<>>
       ELSE <<>>

(***************************************************************************)
(* OutreachManager.run: sequencing pass in one session, then send_drafts   *)
(***************************************************************************)
RECURSIVE IdSeq(_, _)
IdSeq(lo, hi) == IF lo > hi THEN <<>> ELSE <<lo>> \o IdSeq(lo + 1, hi)

\* rows that sessions have inserted and not committed
PendingInserts ==
    LET S == { j \in RunJobs : TRUE }
        RECURSIVE Sum(_)
        Sum(T) == IF T = {} THEN 0
                  ELSE LET j == CHOOSE x \in T : TRUE
                       IN Inserts(pend[j]) + Sum(T \ {j})
    IN Sum(S)

\* a session flushes its writes before its next query: it needs the write lock
CanFlush(j) == pend[j] = <<>> \/ dblock \in { "none", j }
AfterFlush(j) == IF pend[j] # <<>> THEN j ELSE dblock

\* company.contacts: the Contact objects the session loads, in id order; the
\* session keeps each object as loaded until it commits
RECURSIVE LoadContacts(_, _)
LoadContacts(cs, c) ==
    IF c > NumContacts THEN <<>>
    ELSE << [ id |-> c, row |-> cs[c] ] >> \o LoadContacts(cs, c + 1)

\* run(), lines 225-234: open the session, select the scored companies and
\* load the contacts of the company
RunBegin(j) ==
    /\ pc[j] = "idle"
    /\ pc' = [pc EXCEPT ![j] = "seq"]
    /\ todo' = [todo EXCEPT ![j] = LoadContacts(contacts, 1)]
    /\ repliedAtBegin' = [repliedAtBegin EXCEPT ![j] =
        { c \in Contacts : \E k \in Classifications : replies[c][k] > 0 }]
    /\ UNCHANGED << now, contacts, outreach, replies, suppression, dblock, pend,
                    transmitted, mailedSuppressed >>
    /\ UNCHANGED << classified, modelVars >>

\* run(), lines 231-240: one contact of the loop
RunStep(j) ==
    /\ pc[j] = "seq"
    /\ todo[j] # <<>>
    /\ CanFlush(j)
    /\ LET c == Head(todo[j]).id
           \* the queries of the step read the store; the contact is the
           \* object loaded by RunBegin
           db == [View(j) EXCEPT !.contacts[c] = Head(todo[j]).row]
           ws == IF db.contacts[c].status \in SkipStatuses
                 THEN <<>>
                 ELSE process_contact(db, c, now)
       IN /\ Len(outreach) + PendingInserts + Inserts(ws) <= MaxOutreach
          /\ pend' = [pend EXCEPT ![j] = @ \o ws]
    /\ dblock' = AfterFlush(j)
    /\ todo' = [todo EXCEPT ![j] = Tail(@)]
    /\ UNCHANGED << now, contacts, outreach, replies, suppression, pc,
                    transmitted, mailedSuppressed >>
    /\ UNCHANGED << classified, repliedAtBegin, modelVars >>

\* the commit of a session: its writes reach the store, the lock is released
Commit(j) ==
    LET db == View(j)
    IN /\ dblock \in { "none", j }
       /\ contacts' = db.contacts
       /\ outreach' = db.outreach
       /\ pend' = [pend EXCEPT ![j] = <<>>]
       /\ dblock' = "none"

\* run(), line 242: session.commit()
RunCommit(j) ==
    /\ pc[j] = "seq"
    /\ todo[j] = <<>>
    /\ Commit(j)
    /\ pc' = [pc EXCEPT ![j] = "select"]
    /\ UNCHANGED << now, replies, suppression, todo, transmitted,
                    mailedSuppressed >>
    /\ UNCHANGED << classified, repliedAtBegin, modelVars >>

\* ids of the rows with status draft, in id order
RECURSIVE Drafts(_, _)
Drafts(rows, i) ==
    IF i > Len(rows) THEN <<>>
    ELSE (IF rows[i].status = "draft" THEN <<i>> ELSE <<>>) \o Drafts(rows, i + 1)

\* send_drafts, lines 187-195: new session, select the drafts
SendBegin(j) ==
    /\ pc[j] = "select"
    /\ LET drafts == Drafts(outreach, 1)
       IN /\ pc' = [pc EXCEPT ![j] = IF drafts = <<>> THEN "idle" ELSE "send"]
          /\ todo' = [todo EXCEPT ![j] = drafts]
    /\ UNCHANGED << now, contacts, outreach, replies, suppression, dblock, pend,
                    transmitted, mailedSuppressed >>
    /\ UNCHANGED << classified, repliedAtBegin, modelVars >>

\* the history of transmissions saturates at 2
CountUp(n) == IF n < 2 THEN n + 1 ELSE n

\* whether send_drafts hands the draft of this contact to _send_email
MaySend(db, c) == db.contacts[c].email # <<>>

\* send_drafts, lines 196-219: one draft; ok is what _send_email returns
SendStep(j, ok) ==
    /\ pc[j] = "send"
    /\ todo[j] # <<>>
    /\ CanFlush(j)
    /\ LET d == Head(todo[j])
           db == View(j)
           c == db.outreach[d].contact
       IN IF ~MaySend(db, c)
          THEN /\ ok
               /\ UNCHANGED << pend, transmitted, mailedSuppressed >>
          ELSE /\ pend' = [pend EXCEPT ![j] = @ \o
                        IF ok
                        THEN << W("outreach_status", d, "sent"),
                                W("outreach_sent_at", d, now) >>
                        ELSE << W("outreach_status", d, "failed") >>]
               /\ transmitted' =
                    IF ok THEN [transmitted EXCEPT ![d] = CountUp(@)]
                    ELSE transmitted
               /\ mailedSuppressed' =
                    IF ok /\ is_suppressed(suppression, db.contacts[c].email)
                    THEN mailedSuppressed \cup {d}
                    ELSE mailedSuppressed
    /\ dblock' = AfterFlush(j)
    /\ todo' = [todo EXCEPT ![j] = Tail(@)]
    /\ UNCHANGED << now, contacts, outreach, replies, suppression, pc >>
    /\ UNCHANGED << classified, repliedAtBegin, modelVars >>

\* send_drafts, line 221: session.commit()
SendCommit(j) ==
    /\ pc[j] = "send"
    /\ todo[j] = <<>>
    /\ Commit(j)
    /\ pc' = [pc EXCEPT ![j] = "idle"]
    /\ UNCHANGED << now, replies, suppression, todo, transmitted,
                    mailedSuppressed >>
    /\ UNCHANGED << classified, repliedAtBegin, modelVars >>

(***************************************************************************)
(* The same two sessions of run(), each taken as one step                  *)
(***************************************************************************)
\* the loop of run() on a session that starts from store db
RECURSIVE RunLoop(_, _, _)
RunLoop(db, cs, t) ==
    IF cs = <<>> THEN db
    ELSE LET c == Head(cs)
             ws == IF db.contacts[c].status \in SkipStatuses
                   THEN <<>>
                   ELSE process_contact(db, c, t)
         IN RunLoop(ApplyAll(db, ws), Tail(cs), t)

\* run(), lines 225-243: the sequencing pass and its commit, while the store
\* holds at most max Outreach rows
RunSequenceWithin(j, max) ==
    /\ pc[j] = "idle"
    /\ dblock = "none"
    /\ LET db == RunLoop(Store, IdSeq(1, NumContacts), now)
       IN /\ Len(db.outreach) <= max
          /\ contacts' = db.contacts
          /\ outreach' = db.outreach
    /\ pc' = [pc EXCEPT ![j] = "select"]
    /\ UNCHANGED << now, replies, suppression, dblock, todo, pend, transmitted,
                    mailedSuppressed >>
    /\ UNCHANGED << classified, repliedAtBegin, modelVars >>

RunSequence(j) == RunSequenceWithin(j, MaxOutreach)

\* the loop of send_drafts; oks are the drafts _send_email succeeds for
RECURSIVE SendLoop(_, _, _, _)
SendLoop(db, ds, oks, t) ==
    IF ds = <<>> THEN db
    ELSE LET d == Head(ds)
             ws == IF ~MaySend(db, db.outreach[d].contact) THEN <<>>
                   ELSE IF d \in oks
                   THEN << W("outreach_status", d, "sent"),
                           W("outreach_sent_at", d, t) >>
                   ELSE << W("outreach_status", d, "failed") >>
         IN SendLoop(ApplyAll(db, ws), Tail(ds), oks, t)

Range(s) == { s[i] : i \in 1..Len(s) }

\* send_drafts, lines 185-221, as one step
SendDrafts(j, oks) ==
    /\ pc[j] = "select"
    /\ dblock = "none"
    /\ LET ds == Drafts(outreach, 1)
           db == SendLoop(Store, ds, oks, now)
           mailed == { d \in oks : MaySend(Store, outreach[d].contact) }
       IN /\ oks \subseteq Range(ds)
          /\ oks \subseteq mailed
          /\ outreach' = db.outreach
          /\ transmitted' = [i \in DOMAIN transmitted |->
                                IF i \in mailed THEN CountUp(transmitted[i])
                                ELSE transmitted[i]]
          /\ mailedSuppressed' = mailedSuppressed \cup
                { d \in mailed :
                    is_suppressed(suppression,
                                  contacts[outreach[d].contact].email) }
    /\ pc' = [pc EXCEPT ![j] = "idle"]
    /\ UNCHANGED << now, contacts, replies, suppression, dblock, todo, pend >>
    /\ UNCHANGED << classified, repliedAtBegin, modelVars >>

(***************************************************************************)
(* InboxMonitor.process_inbox, the compliance sync, reset_failed           *)
(***************************************************************************)
RECURSIVE SumOver(_, _)
SumOver(f, S) ==
    IF S = {} THEN 0
    ELSE LET x == CHOOSE y \in S : TRUE IN f[x] + SumOver(f, S \ {x})

\* number of rows of the reply table
TotalReplies ==
    LET perContact == [c \in Contacts |-> SumOver(replies[c], Classifications)]
    IN SumOver(perContact, Contacts)

\* select(Contact).where(Contact.email == sender_email).first(); 0 is None
ContactByEmail(cs, sender) ==
    LET M == { c \in Contacts : cs[c].email = sender }
    IN IF M = {} THEN 0 ELSE CHOOSE c \in M : \A k \in M : c <= k

\* the contact status process_inbox sets for a classification
StatusAfterReply(status, category) ==
    CASE category = "interest" -> "active_lead"
      [] category = "deferral" -> "deferred"
      [] category = "referral" -> "referral_needed"
      [] category = "opt_out" -> "opt_out"
      [] category = "irrelevance" ->
            IF status # "bounced" THEN "not_interested" ELSE status

(***************************************************************************)
(* InboxMonitor.classify_reply_content                                     *)
(* A text is kept as its sequence of words; a phrase occurs in it when its *)
(* words occur in a row.                                                   *)
(***************************************************************************)
\* str.lower() on a word
LowerWord(w) ==
    CASE w = "Unsubscribe" -> "unsubscribe"
      [] w = "Automatic" -> "automatic"
      [] w = "Reply" -> "reply"
      [] w = "Demo" -> "demo"
      [] w = "Not" -> "not"
      [] OTHER -> w

LowerWords(ws) == [ i \in DOMAIN ws |-> LowerWord(ws[i]) ]

\* phrase in text
ContainsPhrase(ws, phrase) ==
    \E i \in 1..(Len(ws) - Len(phrase) + 1) :
        SubSeq(ws, i, i + Len(phrase) - 1) = phrase

\* any(x in content_lower for x in phrases)
AnyPhrase(ws, phrases) == \E p \in phrases : ContainsPhrase(ws, p)

OptOutPhrases ==
    { <<"unsubscribe">>, <<"remove", "me">>, <<"stop", "emailing">>,
      <<"opt", "out">>, <<"take", "me", "off">> }

AutoReplyPhrases ==
    { <<"out", "of", "office">>, <<"vacation">>, <<"auto-reply">>,
      <<"automatic", "reply">>, <<"on", "leave">> }

InterestPhrases ==
    { <<"interested">>, <<"call">>, <<"demo">>, <<"chat">>, <<"time", "for">>,
      <<"discuss">>, <<"pricing">> }

NegativePhrases ==
    { <<"not", "interested">>, <<"no", "thanks">>, <<"pass">>, <<"unsubscribe">> }

\* a keyword fallback that looks for the negative phrases first
classify_reply_content_NegativeFirst(subject, body, llm) ==
    LET content_lower == LowerWords(subject \o body)
    IN IF AnyPhrase(content_lower, OptOutPhrases) THEN "opt_out"
       ELSE IF AnyPhrase(content_lower, AutoReplyPhrases) THEN "deferral"
       ELSE IF llm \in Classifications THEN llm
       ELSE IF AnyPhrase(content_lower, NegativePhrases) THEN "irrelevance"
       ELSE IF AnyPhrase(content_lower, InterestPhrases) THEN "interest"
       ELSE "irrelevance"

\* classify_reply_content; llm is the category the OpenAI client returned, or
\* "none" when there is no client, the call failed or the answer was no category
classify_reply_content(subject, body, llm) ==
    LET content_lower == LowerWords(subject \o body)
    IN IF AnyPhrase(content_lower, OptOutPhrases) THEN "opt_out"
       ELSE IF AnyPhrase(content_lower, AutoReplyPhrases) THEN "deferral"
       ELSE IF llm \in Classifications THEN llm
       ELSE IF AnyPhrase(content_lower, InterestPhrases) THEN "interest"
       ELSE IF AnyPhrase(content_lower, NegativePhrases) THEN "irrelevance"
       ELSE "irrelevance"

\* no message classified yet
NoMessage ==
    [ called |-> FALSE, subject |-> << >>, body |-> << >>, llm |-> "none",
      category |-> "none" ]

\* process_inbox with one unread message from sender, classified category
ProcessInbox(sender, category) ==
    /\ dblock = "none"
    /\ TotalReplies < MaxReplies
    /\ ContactByEmail(contacts, sender) # 0
    /\ LET c == ContactByEmail(contacts, sender)
           last == LastOutreach(Store, c)
       IN /\ replies' = [replies EXCEPT ![c][category] = @ + 1]
          /\ outreach' = IF last # 0
                         THEN [outreach EXCEPT ![last].status = "replied"]
                         ELSE outreach
          /\ contacts' = [contacts EXCEPT ![c].status =
                                StatusAfterReply(@, category)]
          /\ suppression' = IF category = "opt_out"
                            THEN suppress_email(suppression, contacts[c].email,
                                                "opt_out")
                            ELSE suppression
    /\ UNCHANGED << now, dblock, pc, todo, pend, transmitted, mailedSuppressed >>
    /\ UNCHANGED << classified, repliedAtBegin, modelVars >>

\* process_inbox with one unread message from sender: the message is
\* classified from its subject and text
ProcessMessage(sender, subject, body, llm) ==
    /\ dblock = "none"
    /\ TotalReplies < MaxReplies
    /\ ContactByEmail(contacts, sender) # 0
    /\ LET c == ContactByEmail(contacts, sender)
           last == LastOutreach(Store, c)
           category == classify_reply_content(subject, body, llm)
       IN /\ classified' = [ called |-> TRUE, subject |-> subject, body |-> body,
                             llm |-> llm, category |-> category ]
          /\ replies' = [replies EXCEPT ![c][category] = @ + 1]
          /\ outreach' = IF last # 0
                         THEN [outreach EXCEPT ![last].status = "replied"]
                         ELSE outreach
          /\ contacts' = [contacts EXCEPT ![c].status =
                                StatusAfterReply(@, category)]
          /\ suppression' = IF category = "opt_out"
                            THEN suppress_email(suppression, contacts[c].email,
                                                "opt_out")
                            ELSE suppression
    /\ UNCHANGED << now, dblock, pc, todo, pend, transmitted, mailedSuppressed >>
    /\ UNCHANGED << repliedAtBegin, modelVars >>

\* run_compliance_sync: sync_from_contacts and commit
ComplianceSync ==
    /\ dblock = "none"
    /\ suppression' = sync_from_contacts(suppression, contacts)
    /\ UNCHANGED << now, contacts, outreach, replies, dblock, pc, todo, pend,
                    transmitted, mailedSuppressed >>
    /\ UNCHANGED << classified, repliedAtBegin, modelVars >>

\* SuppressionManager.suppress_domain called on the store, and commit
SuppressDomain(domain) ==
    /\ dblock = "none"
    /\ suppression' = suppress_domain(suppression, domain, "manual")
    /\ suppression' # suppression
    /\ UNCHANGED << now, contacts, outreach, replies, dblock, pc, todo, pend,
                    transmitted, mailedSuppressed >>
    /\ UNCHANGED << classified, repliedAtBegin, modelVars >>

\* the e-mail addresses an operator may suppress, as typed
EmailInputs ==
    { <<"A", "@", "x">>, <<" ", "a", "@", "X", " ">>, <<"b", "@", "x">> }

\* SuppressionManager.suppress_email called on the store, and commit
SuppressEmail(email) ==
    /\ dblock = "none"
    /\ suppression' = suppress_email(suppression, email, "manual")
    /\ suppression' # suppression
    /\ UNCHANGED << now, contacts, outreach, replies, dblock, pc, todo, pend,
                    transmitted, mailedSuppressed >>
    /\ UNCHANGED << classified, repliedAtBegin, modelVars >>

\* unsuppress_email / unsuppress_domain called on the store, and commit:
\* the first matching row is deleted
Unsuppress(type, value) ==
    /\ dblock = "none"
    /\ \E e \in BagToSet(suppression) :
            /\ e.type = type
            /\ e.value = NormalizeValue(value)
            /\ suppression' = suppression (-) SetToBag({ e })
    /\ UNCHANGED << now, contacts, outreach, replies, dblock, pc, todo, pend,
                    transmitted, mailedSuppressed >>
    /\ UNCHANGED << classified, repliedAtBegin, modelVars >>

\* DataProtectionManager.delete_contact_data and commit. A deleted Contact row
\* is kept as a row without e-mail and with status "deleted", which no query
\* of the program selects; the Outreach rows that remain keep their order.
DeleteContactData(email) ==
    /\ dblock = "none"
    /\ LET email_lower == NormalizeValue(email)
           c == ContactByEmail(contacts, email_lower)
           RECURSIVE Kept(_)
           Kept(i) == IF i > Len(outreach) THEN <<>>
                      ELSE (IF outreach[i].contact # c THEN << i >> ELSE <<>>)
                           \o Kept(i + 1)
           kept == Kept(1)
       IN /\ suppression' = suppress_email(suppression, email_lower,
                                           "data_deletion_request")
          /\ IF c = 0
             THEN UNCHANGED << contacts, outreach, replies, transmitted,
                               mailedSuppressed >>
             ELSE /\ replies' = [replies EXCEPT ![c] = [k \in Classifications |-> 0]]
                  /\ outreach' = [i \in 1..Len(kept) |-> outreach[kept[i]]]
                  /\ contacts' = [contacts EXCEPT ![c] =
                                    [ email |-> <<>>, status |-> "deleted",
                                      stage |-> 0 ]]
                  /\ transmitted' = [i \in DOMAIN transmitted |->
                                        IF i <= Len(kept) THEN transmitted[kept[i]]
                                        ELSE 0]
                  /\ mailedSuppressed' = { i \in 1..Len(kept) :
                                            kept[i] \in mailedSuppressed }
    /\ UNCHANGED << now, dblock, pc, todo, pend >>
    /\ UNCHANGED << classified, repliedAtBegin, modelVars >>

\* the loops of sync_from_contacts in a session that has not flushed: the
\* rows it adds
RECURSIVE SyncWrites(_, _, _, _)
SyncWrites(supp, cs, ids, reason) ==
    IF ids = <<>> THEN <<>>
    ELSE LET email == cs[Head(ids)].email
             new == email # <<>> /\ newly_added(supp, "email", email)
             entry == [ type |-> "email", value |-> NormalizeValue(email),
                        reason |-> reason ]
         IN (IF new THEN << [ op |-> "suppression_insert", c |-> 0, v |-> entry ] >>
             ELSE <<>>)
            \o SyncWrites(IF new THEN supp (+) SetToBag({ entry }) ELSE supp,
                          cs, Tail(ids), reason)

\* a table that takes every row
Conflicts_None(supp, ws) == FALSE

\* the suppressionlist table declares value UNIQUE: an INSERT of a value the
\* table holds raises IntegrityError
Conflicts(supp, ws) ==
    \E i \in 1..Len(ws) : \E e \in BagToSet(supp) : e.value = ws[i].v.value

\* run_compliance_sync, step by step: sync_from_contacts in the task's
\* session; its reads are taken at one instant
SyncRead ==
    /\ pc["compliance_sync_task"] \in { "idle", "failed" }
    /\ LET afterOptOut ==
                SuppressAll(suppression, contacts,
                            ContactsWithStatus(contacts, "opt_out", 1), "opt_out")
           ws == SyncWrites(suppression, contacts,
                            ContactsWithStatus(contacts, "opt_out", 1), "opt_out")
                 \o SyncWrites(afterOptOut, contacts,
                               ContactsWithStatus(contacts, "bounced", 1), "bounced")
       IN pend' = [pend EXCEPT !["compliance_sync_task"] = ws]
    /\ pc' = [pc EXCEPT !["compliance_sync_task"] = "read"]
    /\ UNCHANGED << now, contacts, outreach, replies, suppression, dblock, todo,
                    transmitted, mailedSuppressed >>
    /\ UNCHANGED << classified, repliedAtBegin, modelVars >>

\* run_compliance_sync: the session flushes its rows and commits, or the
\* flush raises and the task logs the failure and leaves the store as it was
SyncCommit ==
    /\ pc["compliance_sync_task"] = "read"
    /\ dblock = "none"
    /\ LET ws == pend["compliance_sync_task"]
       IN IF Conflicts(suppression, ws)
          THEN /\ suppression' = suppression
               /\ pc' = [pc EXCEPT !["compliance_sync_task"] = "failed"]
          ELSE /\ suppression' = ApplyAll(Store, ws).suppression
               /\ pc' = [pc EXCEPT !["compliance_sync_task"] = "idle"]
    /\ pend' = [pend EXCEPT !["compliance_sync_task"] = <<>>]
    /\ UNCHANGED << now, contacts, outreach, replies, dblock, todo, transmitted,
                    mailedSuppressed >>
    /\ UNCHANGED << classified, repliedAtBegin, modelVars >>

\* the reset_failed script: every failed row becomes a draft again
ResetFailed ==
    /\ dblock = "none"
    /\ \E i \in 1..Len(outreach) : outreach[i].status = "failed"
    /\ outreach' = [i \in 1..Len(outreach) |->
                        IF outreach[i].status = "failed"
                        THEN [outreach[i] EXCEPT !.status = "draft"]
                        ELSE outreach[i]]
    /\ UNCHANGED << now, contacts, replies, suppression, dblock, pc, todo, pend,
                    transmitted, mailedSuppressed >>
    /\ UNCHANGED << classified, repliedAtBegin, modelVars >>

\* the reset_outreach script: delete(Outreach) and commit; the contact rows are
\* left as they are, and the history kept per row goes with the rows
ResetOutreach ==
    /\ dblock = "none"
    /\ outreach # <<>>
    /\ outreach' = <<>>
    /\ transmitted' = [i \in DOMAIN transmitted |-> 0]
    /\ mailedSuppressed' = {}
    /\ UNCHANGED << now, contacts, replies, suppression, dblock, pc, todo, pend >>
    /\ UNCHANGED << classified, repliedAtBegin, modelVars >>

\* a day passes
Tick ==
    /\ now < MaxDay
    /\ now' = now + 1
    /\ UNCHANGED << contacts, outreach, replies, suppression, dblock, pc, todo,
                    pend, transmitted, mailedSuppressed >>
    /\ UNCHANGED << classified, repliedAtBegin, modelVars >>

\* the domains an operator may suppress, as typed
DomainInputs == { <<"X">> }

\* the classifications the inbox messages of the model get
InboxCategories == { "interest", "irrelevance", "opt_out" }

\* the store after discovery: every contact pending at stage 0, nothing sent
OutreachInit ==
    /\ now = 0
    /\ contacts \in { cs \in [Contacts -> { [ email |-> e, status |-> "pending",
                                               stage |-> 0 ] : e \in EmailPool }] :
                        \A c \in Contacts : cs[c].email \in EmailChoices(c) }
    /\ outreach = <<>>
    /\ replies = [c \in Contacts |-> [k \in Classifications |-> 0]]
    /\ suppression = EmptyBag
    /\ dblock = "none"
    /\ pc = [j \in Jobs |-> "idle"]
    /\ todo = [j \in Jobs |-> <<>>]
    /\ pend = [j \in Jobs |-> <<>>]
    /\ transmitted = [i \in 1..(MaxOutreach + 1) |-> 0]
    /\ mailedSuppressed = {}
    /\ classified = NoMessage
    /\ repliedAtBegin = [j \in Jobs |-> {}]

(***************************************************************************)
(* OutcomeTracker: the rates of generate_report                            *)
(* A rate is kept in hundredths of a percent: round(x, 2) * 100.           *)
(***************************************************************************)
\* round(num / den * 100, 2), in hundredths, ties to even
RoundPct(num, den) ==
    LET q == (num * 10000) \div den
        r == (num * 10000) % den
    IN IF 2 * r < den THEN q
       ELSE IF 2 * r > den THEN q + 1
       ELSE IF q % 2 = 0 THEN q ELSE q + 1

\* (num / den * 100) if den > 0 else 0
Rate(num, den) == IF den > 0 THEN RoundPct(num, den) ELSE 0

\* count(Outreach.id) where contact_id in ids and status == st
CountOutreach(db, ids, st) ==
    Cardinality({ i \in 1..Len(db.outreach) :
                    db.outreach[i].contact \in ids /\ db.outreach[i].status = st })

\* count(Reply.id) where contact_id in ids and classification in cls
CountReplies(db, ids, cls) ==
    SumOver([c \in Contacts |-> SumOver(db.replies[c], cls)], ids)

\* _get_outreach_stats
get_outreach_stats(db) ==
    LET total_sent == CountOutreach(db, Contacts, "sent")
        total_replied == CountOutreach(db, Contacts, "replied")
        total_interest == CountReplies(db, Contacts, { "interest" })
        total_opt_out == CountReplies(db, Contacts, { "opt_out" })
    IN [ total_sent |-> total_sent,
         total_replied |-> total_replied,
         reply_rate_pct |-> Rate(total_replied, total_sent),
         interest_rate_pct |-> Rate(total_interest, total_replied),
         opt_out_rate_pct |-> Rate(total_opt_out, total_sent) ]

\* _get_signal_performance for a signal whose companies hold contact_ids
signal_performance(db, contact_ids) ==
    LET sent_count == CountOutreach(db, contact_ids, "sent")
        replied_count == CountReplies(db, contact_ids, Classifications)
        interest_count == CountReplies(db, contact_ids, { "interest" })
        opt_out_count == CountReplies(db, contact_ids, { "opt_out" })
    IN [ emails_sent |-> sent_count,
         replies |-> replied_count,
         reply_rate_pct |-> Rate(replied_count, sent_count),
         interest_rate_pct |-> Rate(interest_count, replied_count),
         opt_out_rate_pct |-> Rate(opt_out_count, sent_count) ]

\* _get_tier_performance for a tier whose companies hold contact_ids
tier_performance(db, contact_ids) ==
    LET sent == CountOutreach(db, contact_ids, "sent")
        replied == CountReplies(db, contact_ids, Classifications)
    IN [ sent |-> sent, replied |-> replied,
         reply_rate_pct |-> Rate(replied, sent) ]

(***************************************************************************)
(* Part II: the scoring model (scoring_config.json) and ScoringRefiner      *)
(* Rates are in hundredths of a percent, as in the OutcomeTracker section.  *)
(***************************************************************************)
MIN_SAMPLE_SIZE == 10
MAX_POINT_DELTA == 2
\* BASELINE_REPLY_RATE = 5.0 percent
BASELINE_REPLY_RATE == 500
\* config["refinement_history"][-20:]
HISTORY_CAP == 20
\* min(current_high + 1, 25)
HIGH_FIT_CEILING == 25
\* thresholds.get("medium_fit", 7) + 2
TIER_GAP == 2

\* saves of the model file a behaviour may hold
MaxSaves == 2

\* the signals of the model file, in the order the file lists them
SignalOrder == << "AGENT_PROD", "LLM_API" >>
SignalKeys == { SignalOrder[i] : i \in 1..Len(SignalOrder) }

\* the model file as shipped: points per signal, the signals whose keywords
\* it lists (a page is counted against these keywords), thresholds, no history
InitialConfig ==
    [ points |-> [ s \in SignalKeys |-> IF s = "AGENT_PROD" THEN 10 ELSE 5 ],
      keywords |-> SignalKeys,
      high_fit |-> 12,
      medium_fit |-> 6,
      history |-> << >> ]

\* what _load_config_hash hashes: the signals and the thresholds, not the history
ConfigHash(cfg) ==
    [ points |-> cfg.points, keywords |-> cfg.keywords,
      high_fit |-> cfg.high_fit, medium_fit |-> cfg.medium_fit ]

\* a maximum that forgets its first argument
Max_Second(a, b) == b

Max(a, b) == IF a >= b THEN a ELSE b

Min(a, b) == IF a <= b THEN a ELSE b

\* 2^n
RECURSIVE Pow2(_)
Pow2(n) == IF n = 0 THEN 1 ELSE 2 * Pow2(n - 1)

\* round(math.log2(num / den)) for num >= den > 0: the k with
\* 2^(k - 1/2) <= num/den < 2^(k + 1/2)
RECURSIVE RoundLog2From(_, _, _)
RoundLog2From(num, den, k) ==
    IF num * num < Pow2(2 * k + 1) * den * den THEN k
    ELSE RoundLog2From(num, den, k + 1)

RoundLog2(num, den) == RoundLog2From(num, den, 0)

\* a _calculate_adjustment that looks at the reply rate before the opt-outs
calculate_adjustment_ReplyFirst(signal_data, global_reply_rate) ==
    LET sent == signal_data.emails_sent
        reply_rate == signal_data.reply_rate_pct
        interest_rate == signal_data.interest_rate_pct
        opt_out_rate == signal_data.opt_out_rate_pct
        reference_rate == Max(global_reply_rate, BASELINE_REPLY_RATE)
        num == IF reference_rate > 0 THEN reply_rate ELSE 1
        den == IF reference_rate > 0 THEN reference_rate ELSE 1
    IN IF sent < MIN_SAMPLE_SIZE
       THEN [ delta |-> 0, reason |-> "Insufficient data" ]
       ELSE IF 2 * num >= 3 * den /\ interest_rate > 3000
       THEN [ delta |-> Min(MAX_POINT_DELTA, Max(1, RoundLog2(num, den))),
              reason |-> "Strong performer" ]
       ELSE IF opt_out_rate > 1000
       THEN [ delta |-> 0 - Min(MAX_POINT_DELTA, 2),
              reason |-> "High opt-out rate" ]
       ELSE IF 5 * num >= 6 * den
       THEN [ delta |-> 1, reason |-> "Above average" ]
       ELSE IF 2 * num <= den /\ sent >= MIN_SAMPLE_SIZE * 2
       THEN [ delta |-> -1, reason |-> "Underperforming" ]
       ELSE [ delta |-> 0, reason |-> "Within normal range" ]

\* a _calculate_adjustment that tests for an above-average reply rate before
\* it tests for a strong performer
calculate_adjustment_AverageFirst(signal_data, global_reply_rate) ==
    LET sent == signal_data.emails_sent
        reply_rate == signal_data.reply_rate_pct
        interest_rate == signal_data.interest_rate_pct
        opt_out_rate == signal_data.opt_out_rate_pct
        reference_rate == Max(global_reply_rate, BASELINE_REPLY_RATE)
        num == IF reference_rate > 0 THEN reply_rate ELSE 1
        den == IF reference_rate > 0 THEN reference_rate ELSE 1
    IN IF sent < MIN_SAMPLE_SIZE
       THEN [ delta |-> 0, reason |-> "Insufficient data" ]
       ELSE IF opt_out_rate > 1000
       THEN [ delta |-> 0 - Min(MAX_POINT_DELTA, 2),
              reason |-> "High opt-out rate" ]
       ELSE IF 5 * num >= 6 * den
       THEN [ delta |-> 1, reason |-> "Above average" ]
       ELSE IF 2 * num >= 3 * den /\ interest_rate > 3000
       THEN [ delta |-> Min(MAX_POINT_DELTA, Max(1, RoundLog2(num, den))),
              reason |-> "Strong performer" ]
       ELSE IF 2 * num <= den /\ sent >= MIN_SAMPLE_SIZE * 2
       THEN [ delta |-> -1, reason |-> "Underperforming" ]
       ELSE [ delta |-> 0, reason |-> "Within normal range" ]

\* _calculate_adjustment: (delta, reason)
calculate_adjustment(signal_data, global_reply_rate) ==
    LET sent == signal_data.emails_sent
        reply_rate == signal_data.reply_rate_pct
        interest_rate == signal_data.interest_rate_pct
        opt_out_rate == signal_data.opt_out_rate_pct
        reference_rate == Max(global_reply_rate, BASELINE_REPLY_RATE)
        \* performance_ratio = reply_rate / reference_rate, as num / den
        num == IF reference_rate > 0 THEN reply_rate ELSE 1
        den == IF reference_rate > 0 THEN reference_rate ELSE 1
    IN IF sent < MIN_SAMPLE_SIZE
       THEN [ delta |-> 0, reason |-> "Insufficient data" ]
       ELSE IF opt_out_rate > 1000
       THEN [ delta |-> 0 - Min(MAX_POINT_DELTA, 2),
              reason |-> "High opt-out rate" ]
       ELSE IF 2 * num >= 3 * den /\ interest_rate > 3000
       THEN [ delta |-> Min(MAX_POINT_DELTA, Max(1, RoundLog2(num, den))),
              reason |-> "Strong performer" ]
       ELSE IF 5 * num >= 6 * den
       THEN [ delta |-> 1, reason |-> "Above average" ]
       ELSE IF 2 * num <= den /\ sent >= MIN_SAMPLE_SIZE * 2
       THEN [ delta |-> -1, reason |-> "Underperforming" ]
       ELSE [ delta |-> 0, reason |-> "Within normal range" ]

\* _adjust_thresholds: the config after the call and the flag it returns
adjust_thresholds(config, tier_perf) ==
    LET high_reply_rate == tier_perf.high_priority.reply_rate_pct
        medium_reply_rate == tier_perf.medium_priority.reply_rate_pct
        high_sent == tier_perf.high_priority.sent
        medium_sent == tier_perf.medium_priority.sent
        enough == high_sent >= MIN_SAMPLE_SIZE /\ medium_sent >= MIN_SAMPLE_SIZE
        lowered == Max(config.high_fit - 1, config.medium_fit + TIER_GAP)
        lower == /\ enough
                 /\ 10 * medium_reply_rate >= 8 * high_reply_rate
                 /\ medium_reply_rate > 300
                 /\ lowered # config.high_fit
        high1 == IF lower THEN lowered ELSE config.high_fit
        raised == Min(high1 + 1, HIGH_FIT_CEILING)
        raise == /\ enough
                 /\ high_reply_rate < 100
                 /\ high_sent >= MIN_SAMPLE_SIZE * 3
                 /\ raised # high1
        high2 == IF raise THEN raised ELSE high1
    IN [ config |-> [config EXCEPT !.high_fit = high2],
         changed |-> lower \/ raise ]

\* a cap that keeps the oldest n entries
LastN_Oldest(s, n) == IF Len(s) <= n THEN s ELSE SubSeq(s, 1, n)

\* s[-n:]
LastN(s, n) == IF Len(s) <= n THEN s ELSE SubSeq(s, Len(s) - n + 1, Len(s))

\* the loop of refine over the signals of the config: the change records
RECURSIVE signal_changes(_, _, _)
signal_changes(config, report, keys) ==
    IF keys = << >> THEN << >>
    ELSE LET signal_key == Head(keys)
             perf_data == report.signal_performance[signal_key]
             adj == calculate_adjustment(perf_data, report.global_reply_rate)
             old_points == config.points[signal_key]
             record == [ signal |-> signal_key,
                         old_points |-> old_points,
                         new_points |-> Max(1, old_points + adj.delta),
                         delta |-> adj.delta,
                         reason |-> adj.reason ]
         IN (IF perf_data.present /\ adj.delta # 0 THEN << record >>
             ELSE << >>)
            \o signal_changes(config, report, Tail(keys))

RECURSIVE apply_changes(_, _)
apply_changes(points, changes) ==
    IF changes = << >> THEN points
    ELSE apply_changes(
            [points EXCEPT ![Head(changes).signal] = Head(changes).new_points],
            Tail(changes))

\* a refine that applies and saves its changes on a dry run as well
refine_SavesOnDryRun(config, report, dry_run) ==
    LET changes == signal_changes(config, report, SignalOrder)
        pointed == [config EXCEPT !.points = apply_changes(@, changes)]
        adjusted == adjust_thresholds(pointed, report.tier_performance)
        entry == [ changes |-> changes,
                   global_reply_rate |-> report.global_reply_rate,
                   threshold_adjusted |-> adjusted.changed ]
    IN [ summary |-> [ dry_run |-> dry_run,
                       global_reply_rate |-> report.global_reply_rate,
                       changes_count |-> Len(changes),
                       changes |-> changes,
                       threshold_adjusted |-> adjusted.changed ],
         saves |-> changes # << >>,
         config |-> [adjusted.config EXCEPT !.history =
                        LastN(Append(@, entry), HISTORY_CAP)] ]

\* refine: the summary it returns, whether it saves, and the config it saves
refine(config, report, dry_run) ==
    LET changes == signal_changes(config, report, SignalOrder)
        pointed == IF dry_run THEN config
                   ELSE [config EXCEPT !.points = apply_changes(@, changes)]
        adjusted == IF dry_run THEN [ config |-> pointed, changed |-> FALSE ]
                    ELSE adjust_thresholds(pointed, report.tier_performance)
        entry == [ changes |-> changes,
                   global_reply_rate |-> report.global_reply_rate,
                   threshold_adjusted |-> adjusted.changed ]
        saves == changes # << >> /\ ~dry_run
    IN [ summary |-> [ dry_run |-> dry_run,
                       global_reply_rate |-> report.global_reply_rate,
                       changes_count |-> Len(changes),
                       changes |-> changes,
                       threshold_adjusted |-> adjusted.changed ],
         saves |-> saves,
         config |-> [adjusted.config EXCEPT !.history =
                        LastN(Append(@, entry), HISTORY_CAP)] ]

(***************************************************************************)
(* AgentSignalDetector: analyze_text and process_company                    *)
(* A page text is kept as what the scorer reads from it: whether it is      *)
(* empty, the keyword occurrences per signal, and whether its careers       *)
(* section names founding/first roles.                                      *)
(***************************************************************************)
\* number of Company rows
NumCompanies == 2
\* the bonus for founding/first roles on the careers page
CAREERS_BONUS == 5
\* run_rescoring: rescore_stale(days_threshold=7)
STALE_DAYS == 7
\* the clock of Part II runs over days 0..MaxModelDay, eight days at a time
MaxModelDay == 8

Companies == 1..NumCompanies

NoContent ==
    [ empty |-> TRUE, counts |-> [ s \in SignalKeys |-> 0 ], careers |-> FALSE ]

\* a page that names both signals
ProductPage ==
    [ empty |-> FALSE,
      counts |-> [ s \in SignalKeys |-> IF s = "AGENT_PROD" THEN 2 ELSE 1 ],
      careers |-> FALSE ]

\* a page that names one signal and founding roles
StartupPage ==
    [ empty |-> FALSE,
      counts |-> [ s \in SignalKeys |-> IF s = "LLM_API" THEN 1 ELSE 0 ],
      careers |-> TRUE ]

\* the pages the crawler stored: the first company has content
ContentChoices(c) == IF c = 1 THEN { ProductPage } ELSE { NoContent, StartupPage }

\* the metadata keys written by the scorer and by the other enrichers
ScorerKeys == { "last_scored", "score_breakdown", "reasoning_summary" }
EnricherKeys == { "risk_enrichment", "context_analysis" }

RECURSIVE SumPoints(_, _)
SumPoints(points, S) ==
    IF S = {} THEN 0
    ELSE LET s == CHOOSE x \in S : TRUE
         IN points[s] + SumPoints(points, S \ {s})

\* the points of the matched signals, each weighted by its occurrences
RECURSIVE SumWeighted(_, _, _)
SumWeighted(points, counts, S) ==
    IF S = {} THEN 0
    ELSE LET s == CHOOSE x \in S : TRUE
         IN points[s] * counts[s] + SumWeighted(points, counts, S \ {s})

\* an analyze_text whose score grows with the occurrences of a signal
analyze_text_CountWeighted(config, text) ==
    IF text.empty
    THEN [ signals |-> {}, total_score |-> 0, tier |-> "disqualified",
           maturity_level |-> "unknown" ]
    ELSE LET results == { s \in config.keywords : text.counts[s] > 0 }
             total_score == SumWeighted(config.points, text.counts, results)
                            + (IF text.careers THEN CAREERS_BONUS ELSE 0)
         IN [ signals |-> results,
              total_score |-> total_score,
              tier |-> IF total_score >= config.high_fit THEN "high_priority"
                       ELSE IF total_score >= config.medium_fit
                       THEN "medium_priority"
                       ELSE "disqualified",
              maturity_level |->
                   IF "AGENT_PROD" \in results THEN "production"
                   ELSE IF "LLM_API" \in results THEN "active_development"
                   ELSE "unknown" ]

\* an analyze_text without the guard for missing text: text.lower() raises
analyze_text_NoGuard(config, text) ==
    IF text.empty
    THEN [ signals |-> {}, total_score |-> 0, tier |-> "AttributeError",
           maturity_level |-> "unknown" ]
    ELSE LET results == { s \in config.keywords : text.counts[s] > 0 }
             total_score == SumPoints(config.points, results)
                            + (IF text.careers THEN CAREERS_BONUS ELSE 0)
         IN [ signals |-> results,
              total_score |-> total_score,
              tier |-> IF total_score >= config.high_fit THEN "high_priority"
                       ELSE IF total_score >= config.medium_fit
                       THEN "medium_priority"
                       ELSE "disqualified",
              maturity_level |->
                   IF "AGENT_PROD" \in results THEN "production"
                   ELSE IF "LLM_API" \in results THEN "active_development"
                   ELSE "unknown" ]

\* an analyze_text whose high tier starts above high_fit
analyze_text_StrictHigh(config, text) ==
    IF text.empty
    THEN [ signals |-> {}, total_score |-> 0, tier |-> "disqualified",
           maturity_level |-> "unknown" ]
    ELSE LET results == { s \in config.keywords : text.counts[s] > 0 }
             total_score == SumPoints(config.points, results)
                            + (IF text.careers THEN CAREERS_BONUS ELSE 0)
         IN [ signals |-> results,
              total_score |-> total_score,
              tier |-> IF total_score > config.high_fit THEN "high_priority"
                       ELSE IF total_score >= config.medium_fit
                       THEN "medium_priority"
                       ELSE "disqualified",
              maturity_level |->
                   IF "AGENT_PROD" \in results THEN "production"
                   ELSE IF "LLM_API" \in results THEN "active_development"
                   ELSE "unknown" ]

\* analyze_text
analyze_text(config, text) ==
    IF text.empty
    THEN [ signals |-> {}, total_score |-> 0, tier |-> "disqualified",
           maturity_level |-> "unknown" ]
    ELSE LET results == { s \in config.keywords : text.counts[s] > 0 }
             total_score == SumPoints(config.points, results)
                            + (IF text.careers THEN CAREERS_BONUS ELSE 0)
         IN [ signals |-> results,
              total_score |-> total_score,
              tier |-> IF total_score >= config.high_fit THEN "high_priority"
                       ELSE IF total_score >= config.medium_fit
                       THEN "medium_priority"
                       ELSE "disqualified",
              maturity_level |->
                   IF "AGENT_PROD" \in results THEN "production"
                   ELSE IF "LLM_API" \in results THEN "active_development"
                   ELSE "unknown" ]

\* process_company: the Company row after the call at time t
process_company_row(config, company, t) ==
    IF company.content.empty
    THEN [company EXCEPT !.fitness_score = 0,
                         !.fitness_level = "disqualified",
                         !.is_scored = TRUE]
    ELSE LET analysis == analyze_text(config, company.content)
         IN [company EXCEPT !.fitness_score = analysis.total_score,
                            !.fitness_level = analysis.tier,
                            !.maturity = analysis.maturity_level,
                            !.meta = ScorerKeys,
                            !.last_scored = t,
                            !.breakdown = analysis.signals,
                            !.scored_with = { ConfigHash(config) },
                            !.is_scored = TRUE]

\* process_company: the link table after the call for company c
process_company_links(config, company, c, lks) ==
    IF company.content.empty THEN lks
    ELSE LET analysis == analyze_text(config, company.content)
             kept == { l \in lks : l.company # c \/ l.signal \notin analysis.signals }
         IN kept \cup { [ company |-> c, signal |-> s,
                          occurrences |-> company.content.counts[s] ] :
                        s \in analysis.signals }

\* a store of the scoring side: the company and link tables
\* process_company on company c of such a store
process_company_in(config, st, c, t) ==
    [ companies |-> [st.companies EXCEPT ![c] = process_company_row(config, @, t)],
      links |-> process_company_links(config, st.companies[c], c, st.links) ]

\* a batch loop: process_company over ids in order; the company fail raises.
\* The result is the session's state and whether the loop ended normally.
RECURSIVE score_loop(_, _, _, _, _)
score_loop(config, st, ids, fail, t) ==
    IF ids = << >> THEN [ st |-> st, ok |-> TRUE ]
    ELSE IF Head(ids) = fail THEN [ st |-> st, ok |-> FALSE ]
    ELSE score_loop(config, process_company_in(config, st, Head(ids), t),
                    Tail(ids), fail, t)

\* the ids among 1..NumCompanies that satisfy a selection, in id order
RECURSIVE Select(_, _)
Select(S, c) ==
    IF c > NumCompanies THEN << >>
    ELSE (IF c \in S THEN << c >> ELSE << >>) \o Select(S, c + 1)

\* rescore_stale: the scored companies whose last scoring is missing or older
\* than the cutoff
stale_companies(cs, t, days_threshold) ==
    { c \in Companies :
        /\ cs[c].is_scraped /\ cs[c].is_scored
        /\ \/ "last_scored" \notin cs[c].meta
           \/ cs[c].last_scored < t - days_threshold }

\* RiskComplianceEnricher.process_company on company c
risk_process_company(config, st, c, t) ==
    IF st.companies[c].content.empty THEN st
    ELSE LET scored == process_company_in(config, st, c, t)
         IN [scored EXCEPT !.companies[c].meta = @ \cup { "risk_enrichment" }]

\* RiskComplianceEnricher.run(force=False): the loop over the scraped companies
RECURSIVE risk_loop(_, _, _, _)
risk_loop(config, st, ids, t) ==
    IF ids = << >> THEN st
    ELSE LET c == Head(ids)
         IN risk_loop(config,
                      IF "risk_enrichment" \in st.companies[c].meta THEN st
                      ELSE risk_process_company(config, st, c, t),
                      Tail(ids), t)

\* ContextBuilder.process_company on a Company row
context_process_company(company) ==
    IF company.meta = {} THEN company
    ELSE [company EXCEPT !.meta = @ \cup { "context_analysis" }]

(***************************************************************************)
(* Part II: the jobs that read and write the model file and the companies   *)
(***************************************************************************)
\* a signal with no entry in report["signal_performance"]
NoPerf ==
    [ present |-> FALSE, emails_sent |-> 0, reply_rate_pct |-> 0,
      interest_rate_pct |-> 0, opt_out_rate_pct |-> 0 ]

Perf(sent, reply, interest, opt_out) ==
    [ present |-> TRUE, emails_sent |-> sent, reply_rate_pct |-> reply,
      interest_rate_pct |-> interest, opt_out_rate_pct |-> opt_out ]

\* the per-signal outcomes refine is run on: none, too few e-mails, many
\* opt-outs, a strong performer
SignalPerfInputs ==
    { NoPerf, Perf(5, 2000, 5000, 0), Perf(20, 3000, 3000, 1500),
      Perf(20, 2000, 5000, 0) }

Tier(sent, reply) == [ sent |-> sent, reply_rate_pct |-> reply ]

\* the per-tier outcomes refine is run on: no outreach yet, and a medium tier
\* that converts as well as the high tier
TierPerfInputs ==
    { [ high_priority |-> Tier(0, 0), medium_priority |-> Tier(0, 0) ],
      [ high_priority |-> Tier(20, 500), medium_priority |-> Tier(20, 500) ] }

\* the reports generate_report hands to refine
ReportInputs ==
    { [ global_reply_rate |-> 0, signal_performance |-> sp,
        tier_performance |-> tp ] :
        sp \in [SignalKeys -> SignalPerfInputs], tp \in TierPerfInputs }

\* what a call of refine leaves behind: its inputs and the summary it returned
RefineRecord(config, report, dry_run) ==
    [ called |-> TRUE, config |-> config, report |-> report,
      dry_run |-> dry_run, summary |-> refine(config, report, dry_run).summary ]

\* no call of refine yet
NoRefine ==
    [ RefineRecord(InitialConfig,
                   CHOOSE r \in ReportInputs :
                        \A s \in SignalKeys : ~r.signal_performance[s].present,
                   TRUE)
      EXCEPT !.called = FALSE ]

\* the reports of the runs in which the scored companies are followed: one
\* signal performs strongly, or the other draws opt-outs
ScoringReportInputs ==
    { r \in ReportInputs :
        /\ r.tier_performance.high_priority.sent = 0
        /\ \/ /\ r.signal_performance["AGENT_PROD"] = Perf(20, 2000, 5000, 0)
              /\ r.signal_performance["LLM_API"] = NoPerf
           \/ /\ r.signal_performance["AGENT_PROD"] = NoPerf
              /\ r.signal_performance["LLM_API"] = Perf(20, 3000, 3000, 1500) }

ModelFrame == << cfgFile, backups, refPc, refNew, lastRefine, modelUpdated >>
ScoringFrame == << engPc, engHash, companies, links, lastBatch >>

\* run_scoring_refinement: refine(dry_run) up to the backup copy of _save_config
Refine(report, dry_run) ==
    /\ refPc = "idle"
    /\ readObs' = cfgFile.kind
    /\ IF cfgFile.kind # "complete"
       THEN UNCHANGED ModelFrame
       ELSE LET r == refine(cfgFile.cfg, report, dry_run)
                rec == RefineRecord(cfgFile.cfg, report, dry_run)
            IN IF r.saves
               THEN /\ Len(backups) < MaxSaves
                    /\ backups' = Append(backups, cfgFile.cfg)
                    /\ refPc' = "backed_up"
                    /\ refNew' = [ config |-> r.config, result |-> rec ]
                    /\ UNCHANGED << cfgFile, lastRefine, modelUpdated >>
               ELSE /\ lastRefine' = rec
                    /\ UNCHANGED << cfgFile, backups, refPc, refNew,
                                    modelUpdated >>
    /\ UNCHANGED ScoringFrame
    /\ UNCHANGED outreachVars

\* _save_config: open(config_path, "w") truncates the file
SaveOpen ==
    /\ refPc = "backed_up"
    /\ cfgFile' = [ kind |-> "empty", cfg |-> InitialConfig ]
    /\ refPc' = "opened"
    /\ UNCHANGED << backups, refNew, lastRefine, modelUpdated, readObs >>
    /\ UNCHANGED ScoringFrame
    /\ UNCHANGED outreachVars

\* _save_config: json.dump has written a part of the document
SaveWrite ==
    /\ refPc = "opened"
    /\ cfgFile' = [ kind |-> "partial", cfg |-> refNew.config ]
    /\ refPc' = "writing"
    /\ UNCHANGED << backups, refNew, lastRefine, modelUpdated, readObs >>
    /\ UNCHANGED ScoringFrame
    /\ UNCHANGED outreachVars

\* _save_config: the with block closes the file; refine returns its summary
SaveClose ==
    /\ refPc \in { "opened", "writing" }
    /\ cfgFile' = [ kind |-> "complete", cfg |-> refNew.config ]
    /\ refPc' = "idle"
    /\ lastRefine' = refNew.result
    /\ modelUpdated' =
            IF ConfigHash(refNew.config) # ConfigHash(refNew.result.config)
            THEN "yes" ELSE modelUpdated
    /\ refNew' = [ config |-> InitialConfig, result |-> NoRefine ]
    /\ UNCHANGED << backups, readObs >>
    /\ UNCHANGED ScoringFrame
    /\ UNCHANGED outreachVars

\* _save_config: the write fails or the process dies before the file is closed
SaveFail ==
    /\ refPc \in { "opened", "writing" }
    /\ refPc' = "idle"
    /\ refNew' = [ config |-> InitialConfig, result |-> NoRefine ]
    /\ UNCHANGED << cfgFile, backups, lastRefine, modelUpdated, readObs >>
    /\ UNCHANGED ScoringFrame
    /\ UNCHANGED outreachVars

\* get_refinement_history: a reader of the model file outside the refiner's run
GetRefinementHistory ==
    /\ readObs' = cfgFile.kind
    /\ readObs' # readObs
    /\ UNCHANGED ModelFrame
    /\ UNCHANGED ScoringFrame
    /\ UNCHANGED outreachVars

ScoringStore == [ companies |-> companies, links |-> links ]

BatchRecord(kind, eligible, failed, committed) ==
    [ kind |-> kind, eligible |-> eligible, failed |-> failed,
      committed |-> committed ]

\* a batch of process_company calls in one session: commit at the end, or
\* nothing when the company fail raised
Batch(kind, eligible, fail) ==
    LET res == score_loop(cfgFile.cfg, ScoringStore, Select(eligible, 1), fail, now)
    IN /\ fail = 0 \/ fail \in eligible
       /\ companies' = IF res.ok THEN res.st.companies ELSE companies
       /\ links' = IF res.ok THEN res.st.links ELSE links
       /\ lastBatch' = BatchRecord(kind, eligible, fail,
                                   IF res.ok THEN eligible ELSE {})

\* run_scoring: AgentSignalDetector().run()
DetectorRun(fail) ==
    /\ readObs' = cfgFile.kind
    /\ IF cfgFile.kind # "complete"
       THEN /\ fail = 0
            /\ UNCHANGED << companies, links, lastBatch >>
       ELSE Batch("run",
                  { c \in Companies :
                        companies[c].is_scraped /\ ~companies[c].is_scored },
                  fail)
    /\ UNCHANGED << engPc, engHash >>
    /\ UNCHANGED ModelFrame
    /\ UNCHANGED outreachVars

\* run_rescoring, line 113: RescoringEngine() loads the hash of the file
RescoreBegin ==
    /\ engPc = "idle"
    /\ engPc' = "constructed"
    /\ engHash' = IF cfgFile.kind = "complete" THEN { ConfigHash(cfgFile.cfg) }
                  ELSE {}
    /\ readObs' = cfgFile.kind
    /\ modelUpdated' = IF modelUpdated = "yes" THEN "in_cycle" ELSE modelUpdated
    /\ UNCHANGED << cfgFile, backups, refPc, refNew, lastRefine >>
    /\ UNCHANGED << companies, links, lastBatch >>
    /\ UNCHANGED outreachVars

\* run_rescoring, lines 116-121: rescore_if_model_updated, else rescore_stale
RescoreCheck(fail) ==
    /\ engPc = "constructed"
    /\ LET new_hash == IF cfgFile.kind = "complete"
                       THEN { ConfigHash(cfgFile.cfg) } ELSE {}
           config_changed == engHash # {} /\ engHash # new_hash
           kind == IF config_changed THEN "rescore_all" ELSE "rescore_stale"
       IN IF cfgFile.kind # "complete"
          THEN /\ fail = 0
               /\ lastBatch' = BatchRecord(kind, {}, 0, {})
               /\ UNCHANGED << companies, links >>
          ELSE Batch(kind,
                     IF config_changed
                     THEN { c \in Companies : companies[c].is_scraped }
                     ELSE stale_companies(companies, now, STALE_DAYS),
                     fail)
    /\ engPc' = "idle"
    /\ engHash' = {}
    /\ readObs' = cfgFile.kind
    /\ modelUpdated' = IF modelUpdated = "in_cycle" THEN "no" ELSE modelUpdated
    /\ UNCHANGED << cfgFile, backups, refPc, refNew, lastRefine >>
    /\ UNCHANGED outreachVars

\* run_enrichment: RiskComplianceEnricher().run()
EnrichRun ==
    /\ readObs' = cfgFile.kind
    /\ LET st == IF cfgFile.kind # "complete" THEN ScoringStore
                 ELSE risk_loop(cfgFile.cfg, ScoringStore,
                                Select({ c \in Companies : companies[c].is_scraped }, 1),
                                now)
       IN /\ companies' = st.companies
          /\ links' = st.links
    /\ UNCHANGED << engPc, engHash, lastBatch >>
    /\ UNCHANGED ModelFrame
    /\ UNCHANGED outreachVars

\* ContextBuilder().run(): every scored company
ContextRun ==
    /\ companies' = [ c \in Companies |->
                        IF companies[c].is_scored
                        THEN context_process_company(companies[c])
                        ELSE companies[c] ]
    /\ UNCHANGED << engPc, engHash, links, lastBatch, readObs >>
    /\ UNCHANGED ModelFrame
    /\ UNCHANGED outreachVars

\* more than days_threshold days pass
ModelTick ==
    /\ now + STALE_DAYS + 1 <= MaxModelDay
    /\ now' = now + STALE_DAYS + 1
    /\ UNCHANGED << contacts, outreach, replies, suppression, dblock, pc, todo,
                    pend, transmitted, mailedSuppressed >>
    /\ UNCHANGED << classified, repliedAtBegin, modelVars >>

(***************************************************************************)
(* Initial states and specifications                                        *)
(***************************************************************************)
\* Part II after the crawl: the shipped model file, scraped companies, no score
ModelInit ==
    /\ cfgFile = [ kind |-> "complete", cfg |-> InitialConfig ]
    /\ backups = << >>
    /\ refPc = "idle"
    /\ refNew = [ config |-> InitialConfig, result |-> NoRefine ]
    /\ lastRefine = NoRefine
    /\ engPc = "idle"
    /\ engHash = {}
    /\ companies \in
            { cs \in [Companies ->
                        { [ content |-> t, is_scraped |-> TRUE,
                            is_scored |-> FALSE, fitness_score |-> 0,
                            fitness_level |-> "unscored",
                            maturity |-> "unknown", meta |-> {},
                            last_scored |-> NoTime, breakdown |-> {},
                            scored_with |-> {} ] :
                          t \in { NoContent, ProductPage, StartupPage } }] :
                \A c \in Companies : cs[c].content \in ContentChoices(c) }
    /\ links = {}
    /\ readObs = "none"
    /\ lastBatch = BatchRecord("none", {}, 0, {})
    /\ modelUpdated = "no"

\* Part II at rest while Part I runs
ModelAtRest == ModelInit /\ \A c \in Companies \ {1} : companies[c].content.empty

\* Part I at rest while Part II runs
OutreachAtRest == OutreachInit /\ \A c \in Contacts \ {1} : contacts[c].email = << >>

vars == << outreachVars, modelVars >>

OutreachNext ==
    \/ RunSequence("outreach_task")
    \/ \E oks \in SUBSET (1..MaxOutreach) : SendDrafts("outreach_task", oks)
    \/ \E sender \in EmailPool \ { <<>> }, category \in InboxCategories :
            ProcessInbox(sender, category)
    \/ ComplianceSync
    \/ \E d \in DomainInputs : SuppressDomain(d)
    \/ ResetFailed
    \/ Tick

\* discovery done, sequencing about to start
InitOutreach == OutreachInit /\ ModelAtRest

SpecOutreach == InitOutreach /\ [][OutreachNext]_vars

\* the two jobs that call run() overlapping, each session step by step
OverlapNext ==
    \/ \E j \in RunJobs : RunBegin(j)
    \/ \E j \in RunJobs : RunStep(j)
    \/ \E j \in RunJobs : RunCommit(j)
    \/ \E j \in RunJobs : SendBegin(j)
    \/ \E j \in RunJobs, ok \in BOOLEAN : SendStep(j, ok)
    \/ \E j \in RunJobs : SendCommit(j)
    \/ ResetFailed

SpecOverlap == InitOutreach /\ [][OverlapNext]_vars

\* sequencing cycles, sends and replies, and the reset_outreach script run
\* between them
ResetNext ==
    \/ RunSequence("outreach_task")
    \/ \E oks \in SUBSET (1..MaxOutreach) : SendDrafts("outreach_task", oks)
    \/ \E sender \in EmailPool \ { <<>> }, category \in InboxCategories :
            ProcessInbox(sender, category)
    \/ ResetOutreach
    \/ Tick

SpecReset == InitOutreach /\ [][ResetNext]_vars

\* one job that calls run(), its sessions step by step, and the inbox monitor
\* committing between the steps
InboxNext ==
    \/ RunBegin("outreach_task")
    \/ RunStep("outreach_task")
    \/ RunCommit("outreach_task")
    \/ SendBegin("outreach_task")
    \/ \E ok \in BOOLEAN : SendStep("outreach_task", ok)
    \/ SendCommit("outreach_task")
    \/ \E sender \in EmailPool \ { <<>> }, category \in InboxCategories :
            ProcessInbox(sender, category)

SpecInbox == InitOutreach /\ [][InboxNext]_vars

\* the operations on the store that read or write the suppression list
SuppressionNext ==
    \/ RunSequence("outreach_task")
    \/ \E oks \in SUBSET (1..MaxOutreach) : SendDrafts("outreach_task", oks)
    \/ \E sender \in EmailPool \ { <<>> }, category \in InboxCategories :
            ProcessInbox(sender, category)
    \/ ComplianceSync
    \/ \E d \in DomainInputs : SuppressDomain(d)
    \/ \E e \in EmailInputs : SuppressEmail(e)
    \/ \E e \in EmailPool \ { <<>> } : Unsuppress("email", e)
    \/ \E d \in DomainInputs : Unsuppress("domain", d)
    \/ \E e \in EmailPool \ { <<>> } : DeleteContactData(e)

SpecSuppression == InitOutreach /\ [][SuppressionNext]_vars

\* the compliance sync step by step, with the jobs that commit between its
\* read and its commit
SyncNext ==
    \/ RunSequence("outreach_task")
    \/ \E oks \in SUBSET (1..MaxOutreach) : SendDrafts("outreach_task", oks)
    \/ \E sender \in EmailPool \ { <<>> }, category \in InboxCategories :
            ProcessInbox(sender, category)
    \/ SyncRead
    \/ SyncCommit

SpecSync == InitOutreach /\ [][SyncNext]_vars


\* the refiner and the readers of the model file
RefineNext ==
    \/ \E report \in ReportInputs, dry_run \in BOOLEAN : Refine(report, dry_run)
    \/ SaveOpen
    \/ SaveWrite
    \/ SaveClose
    \/ SaveFail
    \/ GetRefinementHistory

\* the model file as shipped, before the first refinement
InitRefine == OutreachAtRest /\ ModelAtRest

SpecRefine == InitRefine /\ [][RefineNext]_vars

\* the jobs that score the companies, and the refiner changing the model
ScoringNext ==
    \/ \E report \in ScoringReportInputs : Refine(report, FALSE)
    \/ SaveOpen
    \/ SaveClose
    \/ \E fail \in {0} \cup Companies : DetectorRun(fail)
    \/ RescoreBegin
    \/ \E fail \in {0} \cup Companies : RescoreCheck(fail)
    \/ EnrichRun
    \/ ContextRun
    \/ ModelTick

\* the companies crawled and not yet scored
InitScoring == OutreachAtRest /\ ModelInit

SpecScoring == InitScoring /\ [][ScoringNext]_vars

\* the refinement_history a model file holds after n earlier refinements, the
\* k-th of them observed at a global reply rate of k
OldHistory(n) ==
    [ k \in 1..n |-> [ changes |-> << >>, global_reply_rate |-> k,
                       threshold_adjusted |-> FALSE ] ]

\* the model file after no, HISTORY_CAP - 1 or HISTORY_CAP earlier refinements
InitHistory ==
    /\ OutreachAtRest
    /\ cfgFile \in { [ kind |-> "complete",
                       cfg |-> [InitialConfig EXCEPT !.history = OldHistory(n)] ] :
                     n \in { 0, HISTORY_CAP - 1, HISTORY_CAP } }
    /\ backups = << >>
    /\ refPc = "idle"
    /\ refNew = [ config |-> InitialConfig, result |-> NoRefine ]
    /\ lastRefine = NoRefine
    /\ engPc = "idle"
    /\ engHash = {}
    /\ companies = [ c \in Companies |->
                        [ content |-> IF c = 1 THEN ProductPage ELSE NoContent,
                          is_scraped |-> TRUE, is_scored |-> FALSE,
                          fitness_score |-> 0, fitness_level |-> "unscored",
                          maturity |-> "unknown", meta |-> {},
                          last_scored |-> NoTime, breakdown |-> {},
                          scored_with |-> {} ] ]
    /\ links = {}
    /\ readObs = "none"
    /\ lastBatch = BatchRecord("none", {}, 0, {})
    /\ modelUpdated = "no"

\* the refiner run again and again on a model file that has a history
HistoryNext ==
    \/ \E report \in ScoringReportInputs, dry_run \in BOOLEAN :
            Refine(report, dry_run)
    \/ SaveOpen
    \/ SaveWrite
    \/ SaveClose
    \/ SaveFail

SpecHistory == InitHistory /\ [][HistoryNext]_vars

\* the outcomes of one signal that _calculate_adjustment tells apart: too few
\* e-mails, many opt-outs, a strong performer at 4 and at 20 times the
\* reference, above average, underperforming, within the normal range; many
\* opt-outs with no reply at the smallest sample, with a strong reply rate,
\* and opt-outs at exactly 10% and above 10% on too small a sample
AdjustPerfInputs ==
    { Perf(5, 2000, 5000, 0), Perf(20, 3000, 3000, 1500),
      Perf(20, 2000, 5000, 0), Perf(20, 10000, 5000, 0),
      Perf(20, 600, 0, 0), Perf(20, 100, 0, 0), Perf(20, 500, 0, 0),
      Perf(10, 0, 0, 1001), Perf(20, 10000, 5000, 2000),
      Perf(20, 100, 0, 1000), Perf(9, 0, 0, 5000) }

\* reports with outcome data for the first signal, at two global reply rates
AdjustReportInputs ==
    { [ global_reply_rate |-> g,
        signal_performance |->
            [ s \in SignalKeys |-> IF s = SignalOrder[1] THEN p ELSE NoPerf ],
        tier_performance |->
            [ high_priority |-> Tier(0, 0), medium_priority |-> Tier(0, 0) ] ] :
        g \in { 0, 1000 }, p \in AdjustPerfInputs }

\* the points the first signal may have in the model file: a disqualifier
\* (negative points), the floor, just above the floor, the shipped value
PointInputs == { -10, 1, 2, 10 }

InitAdjust ==
    /\ OutreachAtRest
    /\ cfgFile \in { [ kind |-> "complete",
                       cfg |-> [InitialConfig EXCEPT !.points[SignalOrder[1]] = p] ] :
                     p \in PointInputs }
    /\ backups = << >>
    /\ refPc = "idle"
    /\ refNew = [ config |-> InitialConfig, result |-> NoRefine ]
    /\ lastRefine = NoRefine
    /\ engPc = "idle"
    /\ engHash = {}
    /\ companies = [ c \in Companies |->
                        [ content |-> IF c = 1 THEN ProductPage ELSE NoContent,
                          is_scraped |-> TRUE, is_scored |-> FALSE,
                          fitness_score |-> 0, fitness_level |-> "unscored",
                          maturity |-> "unknown", meta |-> {},
                          last_scored |-> NoTime, breakdown |-> {},
                          scored_with |-> {} ] ]
    /\ links = {}
    /\ readObs = "none"
    /\ lastBatch = BatchRecord("none", {}, 0, {})
    /\ modelUpdated = "no"

\* the refiner run on every kind of outcome and point value
AdjustNext ==
    \/ \E report \in AdjustReportInputs, dry_run \in BOOLEAN :
            Refine(report, dry_run)
    \/ SaveOpen
    \/ SaveWrite
    \/ SaveClose
    \/ SaveFail

SpecAdjust == InitAdjust /\ [][AdjustNext]_vars

(***************************************************************************)
(* Claims on the outreach store                                            *)
(***************************************************************************)
OpenRows(c) ==
    { i \in 1..Len(outreach) :
        outreach[i].contact = c /\ outreach[i].status \in { "draft", "queued" } }

\* C1: at every point of any interleaving of sequencing cycles, send_drafts,
\* inbox processing and reset_failed, each contact has at most one Outreach
\* row whose status is draft or queued.
C1_OneOpenOutreachPerContact ==
    \A c \in Contacts : Cardinality(OpenRows(c)) <= 1

\* C2: process_contact never creates an Outreach row for a contact whose
\* e-mail is suppressed, by exact e-mail or by its domain, at the time of the
\* call: every row a sequencing pass adds belongs to a contact that was not
\* suppressed when the pass ran.
C2_NoDraftWhileSuppressed ==
    [][ \A i \in (Len(outreach) + 1)..Len(outreach') :
            ~is_suppressed(suppression, contacts[outreach'[i].contact].email)
      ]_vars

\* C2 witness: a contact suppressed through its domain only was processed
\* (the gate set its status) and holds no Outreach row.
C2_Witness ==
    \E c \in Contacts :
        /\ contacts[c].status = "suppressed"
        /\ HasEntry(suppression, "domain", <<"x">>)
        /\ ~HasEntry(suppression, "email", NormalizeValue(contacts[c].email))
        /\ RowsOf(Store, c) = {}

\* C3: no e-mail is ever transmitted to an address that is suppressed at the
\* moment of sending.
C3_NeverMailSuppressed == mailedSuppressed = {}

RateInRange(rate, den) == rate >= 0 /\ rate <= 10000 /\ (den = 0 => rate = 0)

\* C4: every rate of generate_report (global, and per signal and per tier for
\* whatever contacts the signal or tier selects) lies in [0,100] and is 0 when
\* its denominator is 0.
C4_RatesInRange ==
    LET g == get_outreach_stats(Store)
    IN /\ RateInRange(g.reply_rate_pct, g.total_sent)
       /\ RateInRange(g.interest_rate_pct, g.total_replied)
       /\ RateInRange(g.opt_out_rate_pct, g.total_sent)
       /\ \A ids \in SUBSET Contacts :
            LET sp == signal_performance(Store, ids)
                tp == tier_performance(Store, ids)
            IN /\ RateInRange(sp.reply_rate_pct, sp.emails_sent)
               /\ RateInRange(sp.interest_rate_pct, sp.replies)
               /\ RateInRange(sp.opt_out_rate_pct, sp.emails_sent)
               /\ RateInRange(tp.reply_rate_pct, tp.sent)

(***************************************************************************)
(* Claims on the scoring model, the refiner and the scorer                  *)
(***************************************************************************)
\* the row was scored by a batch that ran and committed at time t
ScoredAt(row, t) ==
    /\ row.is_scored
    /\ row.content.empty \/ (ScorerKeys \subseteq row.meta /\ row.last_scored = t)

\* C5: after the refiner persisted a model whose signals or thresholds differ
\* from the previous version, the next re-scoring cycle (one that started after
\* the save, found the file complete and met no exception) re-scores every
\* scraped company with the model on disk.
C5_UpdateRescoresAll ==
    [][ ( /\ RescoreCheck(0)
          /\ modelUpdated = "in_cycle"
          /\ cfgFile.kind = "complete" )
        => \A c \in Companies :
              companies[c].is_scraped =>
                 /\ ScoredAt(companies'[c], now)
                 /\ \/ companies[c].content.empty
                    \/ companies'[c].scored_with = { ConfigHash(cfgFile.cfg) }
      ]_vars

\* C6: a metadata key written by another enricher (risk_enrichment,
\* context_analysis) that is present on a company is still present after any
\* step, in particular after process_company re-scores the company.
C6_EnricherKeysPreserved ==
    [][ \A c \in Companies : \A k \in EnricherKeys :
            k \in companies[c].meta => k \in companies'[c].meta ]_vars

\* C7: when process_company raises on one company of a batch scoring run
\* (AgentSignalDetector.run, rescore_all, rescore_stale), the other eligible
\* companies of that batch are scored and committed by the run.
C7_BatchSurvivesFailure ==
    [][ \A fail \in Companies :
            (DetectorRun(fail) \/ RescoreCheck(fail)) =>
                \A c \in lastBatch'.eligible \ { fail } :
                    ScoredAt(companies'[c], now) ]_vars

\* C8: every reader of the model file gets a complete document, never an empty
\* or partly written one, and whenever _save_config is not running (it has
\* finished or failed) the file on disk is a complete document.
C8_ModelFileAlwaysComplete ==
    /\ readObs \in { "none", "complete" }
    /\ refPc = "idle" => cfgFile.kind = "complete"

\* C9: for every signal that has outcome data with emails_sent below
\* MIN_SAMPLE_SIZE, the summary refine returned has an entry that names the
\* signal with the insufficient-data reason.
C9_InsufficientDataReported ==
    lastRefine.called =>
        \A s \in SignalKeys :
            LET perf_data == lastRefine.report.signal_performance[s]
                changes == lastRefine.summary.changes
            IN (perf_data.present /\ perf_data.emails_sent < MIN_SAMPLE_SIZE)
               => \E i \in 1..Len(changes) :
                     /\ changes[i].signal = s
                     /\ changes[i].reason = "Insufficient data"

\* C10: the summary refine returned has the same changes list and the same
\* threshold_adjusted value as the call with the other value of dry_run on the
\* same model and the same outcome data.
C10_DryRunSameSummary ==
    lastRefine.called =>
        LET other == refine(lastRefine.config, lastRefine.report,
                            ~lastRefine.dry_run).summary
        IN /\ lastRefine.summary.changes = other.changes
           /\ lastRefine.summary.threshold_adjusted = other.threshold_adjusted
(***************************************************************************)
(* Claims on the refiner's history and bounds                               *)
(***************************************************************************)
\* C11: every refine(dry_run=False) that applies a change has the backup copy
\* of the prior model file written before the file is overwritten, and the
\* file it saves holds the prior refinement_history plus exactly one entry
\* (that of this call), cut to the 20 most recent entries, in order.
C11_BackupAndCappedHistory ==
    [][ /\ (cfgFile.kind = "complete" /\ cfgFile' # cfgFile) =>
              /\ backups # << >>
              /\ backups[Len(backups)] = cfgFile.cfg
        /\ (cfgFile'.kind = "complete" /\ cfgFile' # cfgFile) =>
              LET old == backups[Len(backups)].history
                  new == cfgFile'.cfg.history
                  n == Len(new)
              IN /\ ~lastRefine'.dry_run
                 /\ lastRefine'.summary.changes # << >>
                 /\ n = (IF Len(old) < HISTORY_CAP THEN Len(old) + 1
                         ELSE HISTORY_CAP)
                 /\ new[n].changes = lastRefine'.summary.changes
                 /\ new[n].global_reply_rate
                        = lastRefine'.summary.global_reply_rate
                 /\ \A i \in 1..(n - 1) : new[i] = old[Len(old) - (n - 1) + i]
      ]_vars

\* C11 witness: a save on a file that held HISTORY_CAP entries has completed:
\* the oldest entry is gone, the second oldest is first, a backup exists.
C11_Witness ==
    /\ cfgFile.kind = "complete"
    /\ backups # << >>
    /\ Len(backups[Len(backups)].history) = HISTORY_CAP
    /\ Len(cfgFile.cfg.history) = HISTORY_CAP
    /\ cfgFile.cfg.history[1].global_reply_rate = 2
    /\ cfgFile.cfg.history[HISTORY_CAP].changes # << >>

\* the absolute value
Abs(x) == IF x < 0 THEN 0 - x ELSE x

\* C12: every change record of the summary refine returned has
\* |delta| <= MAX_POINT_DELTA and new_points >= 1, whatever the outcome sample
\* and the current points of the signal.
C12_ChangeRecordsBounded ==
    lastRefine.called =>
        \A i \in 1..Len(lastRefine.summary.changes) :
            LET ch == lastRefine.summary.changes[i]
            IN /\ Abs(ch.delta) <= MAX_POINT_DELTA
               /\ ch.new_points >= 1

\* C12 witness: refine returned a record in which the floor acted (a signal
\* at 1 point with many opt-outs) after one in which the clamp acted.
C12_Witness ==
    /\ lastRefine.called
    /\ \E i \in 1..Len(lastRefine.summary.changes) :
            LET ch == lastRefine.summary.changes[i]
            IN ch.old_points = 1 /\ ch.delta = 0 - MAX_POINT_DELTA
               /\ ch.new_points = 1
    /\ \E k \in 1..Len(cfgFile.cfg.history) :
            \E i \in 1..Len(cfgFile.cfg.history[k].changes) :
                cfgFile.cfg.history[k].changes[i].delta = MAX_POINT_DELTA

(***************************************************************************)
(* Claims on the outreach sequence                                          *)
(***************************************************************************)
\* C13: a contact's outreach_stage never decreases over any sequence of
\* sequencing cycles, sends and replies, the fail-safe path that generates
\* stage 1 for an active contact without an Outreach row included.
C13_StageNeverDecreases ==
    [][ \A c \in Contacts : contacts'[c].stage >= contacts[c].stage ]_vars

\* C14: in process_contact the suppression check precedes every other rule:
\* for a contact whose e-mail is suppressed the call sets the status to
\* suppressed unless it is already opt_out or suppressed, and makes no other
\* change; it does not set replied even when the latest Outreach is replied.
\* The first conjunct is the call on the store as it is, the second the call
\* made by a sequencing pass.
C14_GateBeforeEveryRule ==
    [][ \A c \in Contacts :
            LET contact == contacts[c]
            IN (contact.email # <<>> /\ is_suppressed(suppression, contact.email)) =>
                 /\ process_contact(Store, c, now) =
                        (IF contact.status \notin { "suppressed", "opt_out" }
                         THEN << W("contact_status", c, "suppressed") >>
                         ELSE <<>>)
                 /\ (/\ pc["outreach_task"] = "idle"
                     /\ pc'["outreach_task"] = "select"
                     /\ contact.status \notin SkipStatuses) =>
                        /\ contacts'[c] = [contact EXCEPT !.status = "suppressed"]
                        /\ RowsOf(Store', c) = RowsOf(Store, c)
                        /\ \A i \in RowsOf(Store, c) : outreach'[i] = outreach[i]
      ]_vars

\* C14 witness: a contact whose latest Outreach is replied and whose e-mail is
\* suppressed was processed: the gate set its status to suppressed.
C14_Witness ==
    \E c \in Contacts :
        /\ contacts[c].status = "suppressed"
        /\ is_suppressed(suppression, contacts[c].email)
        /\ LastOutreach(Store, c) # 0
        /\ outreach[LastOutreach(Store, c)].status = "replied"

\* the statuses process_inbox gives a contact whose reply it has classified
ClassifiedStatuses ==
    { "active_lead", "deferred", "opt_out", "referral_needed", "not_interested" }

\* C15: process_contact sets a contact's status to replied only when its
\* latest Outreach is replied and its status is none of active_lead, deferred,
\* opt_out, referral_needed, not_interested: a classified status is never
\* replaced by the generic replied.
C15_RepliedOnlyWhenUnclassified ==
    [][ \A c \in Contacts :
            (contacts'[c].status = "replied" /\ contacts[c].status # "replied") =>
                /\ LastOutreach(Store, c) # 0
                /\ outreach[LastOutreach(Store, c)].status = "replied"
                /\ contacts[c].status \notin ClassifiedStatuses
      ]_vars

C17_SuppressionSticky ==
    [][ /\ (\E e \in BagToSet(suppression) :
                CopiesIn(e, suppression') < CopiesIn(e, suppression)) =>
                \/ \E v \in EmailPool \ { <<>> } : Unsuppress("email", v)
                \/ \E d \in DomainInputs : Unsuppress("domain", d)
        /\ \A email \in EmailPool \ { <<>> } :
                (is_suppressed(suppression, email)
                 /\ ~is_suppressed(suppression', email)) =>
                    \/ Unsuppress("email", email)
                    \/ Unsuppress("domain", DomainOf(NormalizeValue(email)))
      ]_vars

\* C17 witness: the domain entry and the entry of a data deletion request are
\* on the list, a sequencing pass has met the list (it set a contact to
\* suppressed), the contact of the request is deleted, and the first
\* contact's e-mail is still suppressed.
C17_Witness ==
    /\ \E e \in BagToSet(suppression) : e.type = "domain" /\ e.reason = "manual"
    /\ \E e \in BagToSet(suppression) : e.reason = "data_deletion_request"
    /\ \E e \in BagToSet(suppression) : e.reason = "opt_out"
    /\ contacts[1].status = "suppressed"
    /\ contacts[2].status = "deleted"
    /\ is_suppressed(suppression, contacts[1].email)

\* the spellings of one value: letter case and surrounding whitespace vary
Spellings ==
    { { <<"A", "@", "x">>, <<"a", "@", "x">>, <<" ", "a", "@", "X", " ">> },
      { <<"b", "@", "x">>, <<"B", "@", "x", " ">> },
      { <<"X">>, <<"x">>, <<" ", "X">> } }

\* the number of rows of a type whose value is among the given ones
EntryCount(supp, type, values) ==
    BagCardinality([ e \in { x \in BagToSet(supp) :
                                x.type = type /\ x.value \in values } |->
                     CopiesIn(e, supp) ])

\* a first call that returned True, followed by a call with any spelling of
\* the same value: that call returns False, changes nothing, and the table
\* holds one row for the value
SecondCallAfter(type, value, after) ==
    \A S \in Spellings : value \in S =>
        /\ \A w \in S :
                /\ ~newly_added(after, type, w)
                /\ (IF type = "email" THEN suppress_email(after, w, "manual")
                    ELSE suppress_domain(after, w, "manual")) = after
        /\ EntryCount(after, type, S) = 1

\* C18: calling suppress_email (or suppress_domain) twice with the same value,
\* in any letter case or with surrounding whitespace, returns True then False
\* and leaves exactly one suppression entry for that value.
C18_SuppressTwice ==
    [][ /\ \A e \in EmailInputs :
                SuppressEmail(e) =>
                    newly_added(suppression, "email", e)
                    /\ SecondCallAfter("email", e, suppression')
        /\ \A d \in DomainInputs :
                SuppressDomain(d) =>
                    newly_added(suppression, "domain", d)
                    /\ SecondCallAfter("domain", d, suppression')
      ]_vars

\* C18 witness: both calls have added their entry, the e-mail typed with
\* capitals and blanks.
C18_Witness ==
    /\ EntryCount(suppression, "email", { <<"a", "@", "x">> }) = 1
    /\ EntryCount(suppression, "domain", { <<"x">> }) = 1
    /\ \A e \in BagToSet(suppression) : e.reason = "manual"

\* C19: after sync_from_contacts every contact with status opt_out or bounced
\* and a non-empty e-mail has an e-mail suppression entry; running it again
\* with no change in between returns 0 and adds no entry.
C19_SyncCompleteAndRerunnable ==
    [][ ComplianceSync =>
            /\ \A c \in Contacts :
                    (contacts[c].status \in { "opt_out", "bounced" }
                     /\ contacts[c].email # <<>>) =>
                        \E S \in Spellings :
                            /\ contacts[c].email \in S
                            /\ EntryCount(suppression', "email", S) >= 1
            /\ sync_count(suppression', contacts') = 0
            /\ sync_from_contacts(suppression', contacts') = suppression'
      ]_vars

\* C19 witness: the sync has added the entry of a bounced contact, and a
\* second run would return 0.
C19_Witness ==
    /\ \E c \in Contacts :
            /\ contacts[c].status = "bounced"
            /\ \E e \in BagToSet(suppression) :
                    /\ e.type = "email" /\ e.reason = "bounced"
                    /\ e.value = NormalizeValue(contacts[c].email)
    /\ sync_count(suppression, contacts) = 0

\* C20: when two jobs that add suppression entries run concurrently on the
\* shared store (the compliance sync and inbox processing both suppressing
\* the same opted-out e-mail, each in its own session), the suppression list
\* ends with exactly one entry for that e-mail.
C20_OneEntryAfterConcurrentAdds ==
    \A c \in Contacts :
        (contacts[c].status = "opt_out" /\ contacts[c].email # <<>>) =>
            \E S \in Spellings :
                /\ contacts[c].email \in S
                /\ EntryCount(suppression, "email", S) = 1

\* C20 witness: the sync read the store while the first contact was bounced
\* and not suppressed, the inbox monitor then committed its opt-out and the
\* entry, and the sync's own row for the address was refused.
C20_Witness ==
    /\ pc["compliance_sync_task"] = "failed"
    /\ contacts[1].status = "opt_out"
    /\ contacts[2].status \notin { "opt_out", "bounced" }
    /\ EntryCount(suppression, "email", { <<"a", "@", "x">> }) = 1

(***************************************************************************)
(* Claims on the threshold adjustment and on dry runs                      *)
(***************************************************************************)
\* the thresholds a model file may hold: the shipped pair, high_fit at its
\* floor medium_fit + TIER_GAP, at the ceiling, and pairs an operator wrote
\* outside that range
ThresholdConfigInputs ==
    { [InitialConfig EXCEPT !.high_fit = t[1], !.medium_fit = t[2]] :
        t \in { <<12, 6>>, <<8, 6>>, <<25, 6>>, <<7, 6>>, <<30, 6>> } }

\* the per-tier outcomes: too few e-mails in a tier, a medium tier converting
\* as well as the high tier, a high tier without replies
ThresholdTierInputs ==
    { [ high_priority |-> h, medium_priority |-> m ] :
        h \in { Tier(5, 0), Tier(20, 500), Tier(30, 0) },
        m \in { Tier(5, 500), Tier(20, 500), Tier(20, 0) } }

\* reports in which the first signal performs strongly, so that refine saves
ThresholdReportInputs ==
    { [ global_reply_rate |-> 0,
        signal_performance |->
            [ s \in SignalKeys |->
                IF s = SignalOrder[1] THEN Perf(20, 2000, 5000, 0) ELSE NoPerf ],
        tier_performance |-> tp ] : tp \in ThresholdTierInputs }

InitThreshold ==
    /\ OutreachAtRest
    /\ cfgFile \in { [ kind |-> "complete", cfg |-> c ] :
                     c \in ThresholdConfigInputs }
    /\ backups = << >>
    /\ refPc = "idle"
    /\ refNew = [ config |-> InitialConfig, result |-> NoRefine ]
    /\ lastRefine = NoRefine
    /\ engPc = "idle"
    /\ engHash = {}
    /\ companies = [ c \in Companies |->
                        [ content |-> IF c = 1 THEN ProductPage ELSE NoContent,
                          is_scraped |-> TRUE, is_scored |-> FALSE,
                          fitness_score |-> 0, fitness_level |-> "unscored",
                          maturity |-> "unknown", meta |-> {},
                          last_scored |-> NoTime, breakdown |-> {},
                          scored_with |-> {} ] ]
    /\ links = {}
    /\ readObs = "none"
    /\ lastBatch = BatchRecord("none", {}, 0, {})
    /\ modelUpdated = "no"

\* the refiner run on every kind of tier outcome and threshold pair
ThresholdNext ==
    \/ \E report \in ThresholdReportInputs, dry_run \in BOOLEAN :
            Refine(report, dry_run)
    \/ SaveOpen
    \/ SaveWrite
    \/ SaveClose
    \/ SaveFail

SpecThreshold == InitThreshold /\ [][ThresholdNext]_vars

\* the call of refine whose config is about to be written: the thresholds it
\* loaded, the ones it is saving, and the tier outcomes it was given
SavingOld == refNew.result.config
SavingNew == refNew.config
SavingTiers == refNew.result.report.tier_performance

BothTiersSampled(tp) ==
    /\ tp.high_priority.sent >= MIN_SAMPLE_SIZE
    /\ tp.medium_priority.sent >= MIN_SAMPLE_SIZE

\* the medium tier converts nearly as well as the high tier
LoweringStep(tp) ==
    /\ 10 * tp.medium_priority.reply_rate_pct >= 8 * tp.high_priority.reply_rate_pct
    /\ tp.medium_priority.reply_rate_pct > 300

\* the high tier converts very poorly over a large sample
RaisingStep(tp) ==
    /\ tp.high_priority.reply_rate_pct < 100
    /\ tp.high_priority.sent >= MIN_SAMPLE_SIZE * 3

\* C21: _adjust_thresholds changes high_fit only when both tiers have at
\* least MIN_SAMPLE_SIZE e-mails sent; high_fit goes down only by a lowering
\* step, by exactly 1 and never below medium_fit + 2; it goes up only by a
\* raising step, by exactly 1 and never above 25; a step that would cross its
\* bound leaves high_fit as it was.
C21_ThresholdSteps ==
    refPc = "backed_up" =>
        LET old == SavingOld.high_fit
            new == SavingNew.high_fit
            tp == SavingTiers
        IN /\ new # old => BothTiersSampled(tp)
           /\ new < old => /\ LoweringStep(tp)
                           /\ new = old - 1
                           /\ new >= SavingOld.medium_fit + 2
           /\ new > old => /\ RaisingStep(tp)
                           /\ new = old + 1
                           /\ new <= 25
           /\ SavingNew.medium_fit = SavingOld.medium_fit


\* C22: refine(dry_run=True) leaves the model file (signal points, thresholds,
\* refinement_history) and the backup directory as they were: the step in
\* which a dry run returns its summary changes neither, and no save is ever
\* begun on behalf of a dry run.
C22_DryRunWritesNothing ==
    [][ /\ (lastRefine' # lastRefine /\ lastRefine'.dry_run) =>
              /\ cfgFile' = cfgFile
              /\ backups' = backups
        /\ (refPc = "idle" /\ refPc' # "idle") => ~refNew'.result.dry_run
      ]_vars

\* C22 witness: a dry run has reported a change it would make, and the model
\* file still holds the shipped points and thresholds, with no backup.
C22_Witness ==
    /\ lastRefine.called
    /\ lastRefine.dry_run
    /\ lastRefine.summary.changes # << >>
    /\ cfgFile = [ kind |-> "complete", cfg |-> InitialConfig ]
    /\ backups = << >>


(***************************************************************************)
(* Claims on the start and the continuation of a sequence                  *)
(***************************************************************************)
\* the contact is pending, its e-mail is not suppressed and none of its
\* Outreach rows is replied
StartsSequence(c) ==
    /\ contacts[c].status = "pending"
    /\ ~Gate(Store, c)
    /\ \A i \in RowsOf(Store, c) : outreach[i].status # "replied"

\* a sequencing pass of the outreach job
SequencingPass == pc["outreach_task"] = "idle" /\ pc'["outreach_task"] = "select"

MaxLongOutreach == 4
MaxLongDay == 12

\* a day passes, over the days of a whole sequence
DayPasses ==
    /\ now < MaxLongDay
    /\ now' = now + 1
    /\ UNCHANGED << contacts, outreach, replies, suppression, dblock, pc, todo,
                    pend, transmitted, mailedSuppressed >>
    /\ UNCHANGED << classified, repliedAtBegin, modelVars >>

\* discovery found one contact with an address
InitSequence ==
    /\ OutreachInit
    /\ \A c \in Contacts : c # 1 => contacts[c].email = << >>
    /\ ModelAtRest

\* the outreach job cycle after cycle, a suppression of the contact's domain
SequenceNext ==
    \/ RunSequenceWithin("outreach_task", MaxLongOutreach)
    \/ \E oks \in SUBSET (1..MaxLongOutreach) : SendDrafts("outreach_task", oks)
    \/ \E d \in DomainInputs : SuppressDomain(d)
    \/ DayPasses

SpecSequence == InitSequence /\ [][SequenceNext]_vars

\* the contact is active and its latest Outreach is sent
WaitsInGap(c) ==
    /\ contacts[c].status = "active"
    /\ LastOutreach(Store, c) # 0
    /\ outreach[LastOutreach(Store, c)].status = "sent"

\* the rows of the contact are left as they are
RowsKept(c) ==
    \A i \in RowsOf(Store, c) :
        i \in RowsOf(Store', c) /\ outreach'[i] = outreach[i]

\* the call adds exactly one row for the contact, a draft at the stage
OneDraftAdded(c, stage) ==
    LET added == RowsOf(Store', c) \ RowsOf(Store, c)
    IN /\ Cardinality(added) = 1
       /\ \A i \in added : /\ outreach'[i].status = "draft"
                           /\ outreach'[i].stage = stage

ChangesFor(s) ==
    { i \in 1..Len(lastRefine.summary.changes) :
        lastRefine.summary.changes[i].signal = s }

\* C25: for a signal with emails_sent >= MIN_SAMPLE_SIZE and an opt-out rate
\* above 10% (1000 hundredths of a percent), _calculate_adjustment returns
\* delta -2 with the reason that cites the opt-out rate, whatever the reply
\* rate, the interest rate and the global reply rate: refine reports exactly
\* that change for the signal. At 10% or on a smaller sample it does not.
C25_OptOutsDominate ==
    lastRefine.called =>
        \A s \in SignalKeys :
            LET perf == lastRefine.report.signal_performance[s]
                changes == lastRefine.summary.changes
            IN /\ (/\ perf.present
                   /\ perf.emails_sent >= MIN_SAMPLE_SIZE
                   /\ perf.opt_out_rate_pct > 1000) =>
                      /\ Cardinality(ChangesFor(s)) = 1
                      /\ \A i \in ChangesFor(s) :
                            /\ changes[i].delta = -2
                            /\ changes[i].reason = "High opt-out rate"
               /\ (\E i \in ChangesFor(s) :
                        changes[i].reason = "High opt-out rate") =>
                      /\ perf.emails_sent >= MIN_SAMPLE_SIZE
                      /\ perf.opt_out_rate_pct > 1000

\* C25 witness: refine was run on a signal with a reply rate of 100%, an
\* interest rate of 50% and opt-outs at 20%, at a global reply rate of 10%,
\* and reported delta -2 for the opt-outs.
C25_Witness ==
    /\ lastRefine.called
    /\ lastRefine.report.global_reply_rate = 1000
    /\ \E s \in SignalKeys :
            /\ lastRefine.report.signal_performance[s] = Perf(20, 10000, 5000, 2000)
            /\ \E i \in ChangesFor(s) :
                    /\ lastRefine.summary.changes[i].delta = -2
                    /\ lastRefine.summary.changes[i].reason = "High opt-out rate"


(***************************************************************************)
(* Claims on analyze_text                                                  *)
(***************************************************************************)
\* the pages the crawler may have stored: no text, and texts that name each
\* signal never, once or three times, with or without founding roles on the
\* careers page
PageInputs ==
    { NoContent } \cup
    { [ empty |-> FALSE, counts |-> cn, careers |-> k ] :
        cn \in [SignalKeys -> { 0, 1, 3 }], k \in BOOLEAN }

\* the model files the scorer may load: the first signal as shipped or as a
\* disqualifier, and thresholds apart, equal, and with medium_fit at 0
TierConfigInputs ==
    { [InitialConfig EXCEPT !.points[SignalOrder[1]] = p,
                            !.high_fit = t[1], !.medium_fit = t[2]] :
        p \in { -10, 10 },
        t \in { <<12, 6>>, <<15, 10>>, <<10, 10>>, <<5, 0>> } }

InitTier ==
    /\ OutreachAtRest
    /\ cfgFile \in { [ kind |-> "complete", cfg |-> c ] : c \in TierConfigInputs }
    /\ backups = << >>
    /\ refPc = "idle"
    /\ refNew = [ config |-> InitialConfig, result |-> NoRefine ]
    /\ lastRefine = NoRefine
    /\ engPc = "idle"
    /\ engHash = {}
    /\ companies \in
            [Companies ->
                { [ content |-> t, is_scraped |-> TRUE,
                    is_scored |-> FALSE, fitness_score |-> 0,
                    fitness_level |-> "unscored",
                    maturity |-> "unknown", meta |-> {},
                    last_scored |-> NoTime, breakdown |-> {},
                    scored_with |-> {} ] : t \in PageInputs }]
    /\ links = {}
    /\ readObs = "none"
    /\ lastBatch = BatchRecord("none", {}, 0, {})
    /\ modelUpdated = "no"

\* the scoring job on the crawled companies
TierNext == \E fail \in {0} \cup Companies : DetectorRun(fail)

SpecTier == InitTier /\ [][TierNext]_vars

\* the signals the page of the company names at least once
Matched(c) == { s \in SignalKeys : companies[c].content.counts[s] > 0 }

\* the company was scored by analyze_text on a text
Analysed(c) == companies[c].is_scored /\ ~companies[c].content.empty

\* C26: analyze_text's total_score is the sum of the base points of the
\* signals with at least one keyword match, plus the careers bonus, and does
\* not depend on how often a keyword occurs: two texts that name the same
\* signals get the same score and the same tier.
C26_ScoreIgnoresOccurrences ==
    \A c \in Companies :
        Analysed(c) =>
            /\ companies[c].fitness_score =
                    SumPoints(cfgFile.cfg.points, Matched(c))
                    + (IF companies[c].content.careers THEN 5 ELSE 0)
            /\ \A d \in Companies :
                    (/\ Analysed(d)
                     /\ Matched(d) = Matched(c)
                     /\ companies[d].content.careers = companies[c].content.careers) =>
                        /\ companies[d].fitness_score = companies[c].fitness_score
                        /\ companies[d].fitness_level = companies[c].fitness_level

\* C26 witness: two companies were scored, one naming a signal once and the
\* other naming it three times, and both are in the medium tier.
C26_Witness ==
    \E c, d \in Companies :
        /\ Analysed(c) /\ Analysed(d)
        /\ Matched(c) = Matched(d)
        /\ \E s \in Matched(c) :
                companies[c].content.counts[s] = 1 /\ companies[d].content.counts[s] = 3
        /\ companies[c].fitness_level = "medium_priority"
        /\ companies[d].fitness_level = "medium_priority"

\* C27: on an empty or missing text analyze_text returns score 0, tier
\* disqualified and maturity unknown, whatever the model file holds, and
\* process_company stores score 0 and tier disqualified for the company.
C27_EmptyTextDisqualified ==
    \A c \in Companies :
        companies[c].content.empty =>
            LET analysis == analyze_text(cfgFile.cfg, companies[c].content)
            IN /\ analysis.total_score = 0
               /\ analysis.tier = "disqualified"
               /\ analysis.maturity_level = "unknown"
               /\ companies[c].is_scored =>
                    /\ companies[c].fitness_score = 0
                    /\ companies[c].fitness_level = "disqualified"

\* C27 witness: a company without text was scored under thresholds that a
\* score of 0 reaches, and is stored as disqualified with score 0.
C27_Witness ==
    \E c \in Companies :
        /\ companies[c].content.empty
        /\ companies[c].is_scored
        /\ companies[c].fitness_score = 0
        /\ companies[c].fitness_level = "disqualified"
        /\ cfgFile.cfg.medium_fit = 0
        /\ c \in lastBatch.committed

\* C28: for every total score S that analyze_text computes and thresholds
\* with high_fit >= medium_fit, the tier is high_priority iff S >= high_fit,
\* medium_priority iff medium_fit <= S < high_fit, and disqualified otherwise.
C28_TierByThresholds ==
    \A c \in Companies :
        (Analysed(c) /\ cfgFile.cfg.high_fit >= cfgFile.cfg.medium_fit) =>
            LET S == companies[c].fitness_score
                tier == companies[c].fitness_level
            IN /\ tier = "high_priority" <=> S >= cfgFile.cfg.high_fit
               /\ tier = "medium_priority" <=>
                    (cfgFile.cfg.medium_fit <= S /\ S < cfgFile.cfg.high_fit)
               /\ tier = "disqualified" <=> S < cfgFile.cfg.medium_fit

\* C28 witness: one company scored exactly high_fit and is high_priority,
\* the other scored exactly medium_fit, below high_fit, and is medium_priority.
C28_Witness ==
    \E c, d \in Companies :
        /\ Analysed(c) /\ Analysed(d)
        /\ companies[c].fitness_score = cfgFile.cfg.high_fit
        /\ companies[c].fitness_level = "high_priority"
        /\ companies[d].fitness_score = cfgFile.cfg.medium_fit
        /\ cfgFile.cfg.medium_fit < cfgFile.cfg.high_fit
        /\ companies[d].fitness_level = "medium_priority"


(***************************************************************************)
(* Claims on the suppression lookup                                        *)
(***************************************************************************)
\* what an operator may suppress as an e-mail: an address as the contact has
\* it, the same address in another spelling, a bare domain name, an address
\* at that domain
LookupEmailEntries ==
    { <<"A", "@", "x">>, <<" ", "a", "@", "X", " ">>, <<"y">>,
      <<"b", "@", "y">> }

\* what an operator may suppress as a domain: the contacts' domain and a full
\* address; no value is on the list under both types (value is UNIQUE)
LookupDomainEntries == { <<"X">>, <<"b", "@", "x">> }

\* the addresses is_suppressed is asked about: as stored, with blanks and
\* capitals, at the other domain, and a string without '@'
LookupQueries ==
    { <<"A", "@", "x">>, <<" ", "A", "@", "X", " ">>, <<"b", "@", "x">>,
      <<"b", "@", "y">>, <<"c", "@", "y">>, <<"x">> }

\* the outreach job and an operator who edits the suppression list
LookupNext ==
    \/ RunSequence("outreach_task")
    \/ \E oks \in SUBSET (1..MaxOutreach) : SendDrafts("outreach_task", oks)
    \/ \E e \in LookupEmailEntries : SuppressEmail(e)
    \/ \E d \in LookupDomainEntries : SuppressDomain(d)
    \/ \E e \in LookupEmailEntries : Unsuppress("email", e)
    \/ \E d \in LookupDomainEntries : Unsuppress("domain", d)

SpecLookup == InitOutreach /\ [][LookupNext]_vars

\* the list holds an email-type entry equal to the lower-cased, trimmed
\* address, or a domain-type entry equal to the part after its '@'
ListedFor(email) ==
    LET e == Lower(Strip(email))
    IN \E x \in BagToSet(suppression) :
            \/ x.type = "email" /\ x.value = e
            \/ /\ x.type = "domain"
               /\ \E i \in 1..Len(e) :
                    e[i] = "@" /\ x.value = SubSeq(e, i + 1, Len(e))

\* C29: is_suppressed(email) is true exactly when the suppression list holds
\* an email-type entry equal to the lower-cased, trimmed e-mail or a
\* domain-type entry equal to the part after its '@'; the gate of a
\* sequencing pass sets a contact to suppressed in exactly these cases.
C29_SuppressedIffListed ==
    [][ /\ \A e \in LookupQueries :
                is_suppressed(suppression, e) <=> ListedFor(e)
        /\ \A c \in Contacts :
                (/\ SequencingPass
                 /\ contacts[c].status \notin SkipStatuses
                 /\ contacts[c].email # << >>) =>
                    (contacts'[c].status = "suppressed"
                        <=> ListedFor(contacts[c].email))
      ]_vars

\* C29 witness: with the address of one contact on the list as an e-mail and
\* the address of the other on the list as a domain, a sequencing pass set
\* the first contact to suppressed and started the second.
C29_Witness ==
    /\ pc["outreach_task"] = "select"
    /\ HasEntry(suppression, "email", <<"a", "@", "x">>)
    /\ HasEntry(suppression, "domain", <<"b", "@", "x">>)
    /\ HasEntry(suppression, "email", <<"y">>)
    /\ \E c, d \in Contacts :
            /\ contacts[c].email = <<"A", "@", "x">>
            /\ contacts[c].status = "suppressed"
            /\ contacts[d].email = <<"b", "@", "x">>
            /\ contacts[d].status = "active"


(***************************************************************************)
(* Claims on the classification of replies                                 *)
(***************************************************************************)
\* the subjects and texts of the replies that arrive
SubjectInputs ==
    { <<"Re:", "Intro">>, <<"Unsubscribe">>, <<"Automatic", "Reply">>, <<"opt">> }

BodyInputs ==
    { << >>,
      <<"interested", "in", "a", "Demo">>,
      <<"please", "remove", "me">>,
      <<"out", "of", "office", "call", "my", "colleague">>,
      <<"no", "thanks">>,
      <<"Not", "interested">>,
      <<"on", "vacation", "please", "unsubscribe", "me">>,
      <<"out", "there">> }

\* what the OpenAI client answers, "none" without a client
LlmInputs == { "none", "referral" }

\* the outreach job and the inbox monitor reading replies
ClassifyNext ==
    \/ RunSequence("outreach_task")
    \/ \E oks \in SUBSET (1..MaxOutreach) : SendDrafts("outreach_task", oks)
    \/ \E sender \in EmailPool \ { <<>> }, subject \in SubjectInputs,
          body \in BodyInputs, llm \in LlmInputs :
            ProcessMessage(sender, subject, body, llm)

SpecClassify == InitOutreach /\ [][ClassifyNext]_vars

\* the message last classified holds one of the phrases, in lower case
Mentions(phrases) ==
    \E p \in phrases :
        ContainsPhrase(LowerWords(classified.subject \o classified.body), p)

\* C30: with the LLM client disabled, classify_reply_content applies the
\* keyword rules in a fixed priority: any opt-out phrase gives opt_out,
\* otherwise any auto-reply phrase gives deferral, otherwise any interest
\* phrase gives interest, otherwise the result is irrelevance.
C30_KeywordPriority ==
    (classified.called /\ classified.llm = "none") =>
        classified.category =
            (IF Mentions(OptOutPhrases) THEN "opt_out"
             ELSE IF Mentions(AutoReplyPhrases) THEN "deferral"
             ELSE IF Mentions(InterestPhrases) THEN "interest"
             ELSE "irrelevance")

\* C30 witness: without an LLM client a reply that says "Not interested" was
\* classified: it holds the interest phrase "interested" and no opt-out or
\* auto-reply phrase, and the result is interest.
C30_Witness ==
    /\ classified.called
    /\ classified.llm = "none"
    /\ classified.body = <<"Not", "interested">>
    /\ classified.subject = <<"Re:", "Intro">>
    /\ classified.category = "interest"
    /\ \E c \in Contacts : contacts[c].status = "active_lead"


(***************************************************************************)
(* Claims on the size of a point change and on saved thresholds            *)
(***************************************************************************)
\* C31: in one refinement cycle the points of any signal change by at most
\* MAX_POINT_DELTA: every change record has |new_points - old_points| <= 2,
\* also for a signal whose current points are zero or negative.
C31_PointsMoveByAtMostDelta ==
    lastRefine.called =>
        \A i \in 1..Len(lastRefine.summary.changes) :
            LET ch == lastRefine.summary.changes[i]
            IN Abs(ch.new_points - ch.old_points) <= 2


\* C32: whenever refine(dry_run=False) has returned threshold_adjusted = true,
\* the model file on disk holds the adjusted high_fit threshold, also after a
\* cycle in which no signal's points changed.
C32_AdjustedThresholdOnDisk ==
    (/\ lastRefine.called
     /\ ~lastRefine.dry_run
     /\ lastRefine.summary.threshold_adjusted
     /\ refPc = "idle"
     /\ cfgFile.kind = "complete") =>
        cfgFile.cfg.high_fit =
            adjust_thresholds(lastRefine.config,
                              lastRefine.report.tier_performance).config.high_fit

(***************************************************************************)
(* Claims on transmissions, opt-outs and replies                           *)
(***************************************************************************)
\* C33: each Outreach row is transmitted at most once, also when two outreach
\* runs overlap and when a run stops between a transmission and the commit at
\* the end of send_drafts.
C33_TransmittedAtMostOnce ==
    \A i \in DOMAIN transmitted : transmitted[i] <= 1

\* C34: once a contact's status is opt_out, no later operation (a further
\* classified reply, a sequencing cycle, the compliance sync) changes it.
C34_OptOutIsFinal ==
    [][ \A c \in Contacts :
            contacts[c].status = "opt_out" => contacts'[c].status = "opt_out" ]_vars

\* the replies process_inbox has recorded from this contact
RepliesFrom(c) == SumOver(replies[c], Classifications)

\* outreach_task runs its pass contact by contact while inbox_monitor_task
\* commits replies in between, over several days
LateNext ==
    \/ RunBegin("outreach_task")
    \/ RunStep("outreach_task")
    \/ RunCommit("outreach_task")
    \/ SendBegin("outreach_task")
    \/ \E ok \in BOOLEAN : SendStep("outreach_task", ok)
    \/ SendCommit("outreach_task")
    \/ \E sender \in EmailPool \ { <<>> }, category \in InboxCategories :
            ProcessInbox(sender, category)
    \/ Tick

SpecLate == InitSequence /\ [][LateNext]_vars

\* the contacts the step of the pass writes an Outreach row for
DraftedBy(j) ==
    { pend'[j][k].c : k \in { k \in (Len(pend[j]) + 1)..Len(pend'[j]) :
                                pend'[j][k].op = "outreach_insert" } }

\* C35: once inbox processing has recorded a reply from a contact, no later
\* sequencing cycle creates another Outreach row for that contact, whatever
\* the classification was and whatever the contact's status and latest
\* Outreach row were when the reply arrived: a pass that began after the reply
\* was recorded writes no Outreach row for the contact.
C35_NoDraftAfterReply ==
    [][ \A j \in RunJobs :
            pc[j] = "seq" => DraftedBy(j) \cap repliedAtBegin[j] = {} ]_vars

(***************************************************************************)
(* Claim on the signal links of a scored company                           *)
(***************************************************************************)
\* an operator edits scoring_config.json: the keywords of the signals outside
\* S are replaced by words no page contains
EditKeywords(S) ==
    /\ cfgFile.kind = "complete"
    /\ refPc = "idle"
    /\ cfgFile.cfg.keywords # S
    /\ cfgFile' = [cfgFile EXCEPT !.cfg.keywords = S]
    /\ UNCHANGED << backups, refPc, refNew, lastRefine, modelUpdated >>
    /\ UNCHANGED ScoringFrame
    /\ UNCHANGED readObs
    /\ UNCHANGED outreachVars

\* force_rescore.py: RescoringEngine().rescore_all()
ForceRescore(fail) ==
    /\ cfgFile.kind = "complete"
    /\ readObs' = cfgFile.kind
    /\ Batch("rescore_all", { c \in Companies : companies[c].is_scraped }, fail)
    /\ UNCHANGED << engPc, engHash >>
    /\ UNCHANGED ModelFrame
    /\ UNCHANGED outreachVars

LinksNext ==
    \/ \E fail \in {0} \cup Companies : DetectorRun(fail)
    \/ \E S \in SUBSET SignalKeys : EditKeywords(S)
    \/ \E fail \in {0} \cup Companies : ForceRescore(fail)

SpecLinks == InitScoring /\ [][LinksNext]_vars

\* the signals company c has a CompanySignalLink row for
LinkedSignals(c) == { l.signal : l \in { l \in links : l.company = c } }

\* C36: after process_company scores a company, the company's
\* CompanySignalLink rows are exactly the signals matched by that scoring (the
\* score_breakdown it stored): links to signals that no longer match are
\* removed.
C36_LinksAreMatchedSignals ==
    \A c \in lastBatch.committed :
        ~companies[c].content.empty =>
            LinkedSignals(c) = companies[c].breakdown

(***************************************************************************)
(* Claim on a whole sequence                                               *)
(***************************************************************************)
\* a pass of the outreach job would write something, or a draft waits
PassIsDue ==
    LET db == RunLoop(Store, IdSeq(1, NumContacts), now)
    IN \/ db.contacts # contacts
       \/ db.outreach # outreach
       \/ Drafts(outreach, 1) # << >>

\* outreach_task runs every 120 minutes: a day ends only when the job is idle
\* and has nothing to do
DayPassesAtRest ==
    /\ pc["outreach_task"] = "idle"
    /\ ~PassIsDue
    /\ DayPasses

FairSequenceNext ==
    \/ RunSequenceWithin("outreach_task", MaxLongOutreach)
    \/ \E oks \in SUBSET (1..MaxLongOutreach) : SendDrafts("outreach_task", oks)
    \/ \E d \in DomainInputs : SuppressDomain(d)
    \/ DayPassesAtRest

\* the scheduler keeps running the job and the days keep passing
SpecSequenceFair ==
    /\ InitSequence
    /\ [][FairSequenceNext]_vars
    /\ WF_vars(RunSequenceWithin("outreach_task", MaxLongOutreach))
    /\ WF_vars(\E oks \in SUBSET (1..MaxLongOutreach) :
                    SendDrafts("outreach_task", oks))
    /\ SF_vars(DayPassesAtRest)

\* the contact has an address that was never suppressed, and none of its
\* drafts failed to send
Undisturbed(c) ==
    /\ contacts[c].email # << >>
    /\ ~is_suppressed(suppression, contacts[c].email)
    /\ contacts[c].status \notin { "suppressed", "bounced" }
    /\ \A i \in RowsOf(Store, c) : outreach[i].status # "failed"

\* the rows of the contact are the stages 1, 2, ... in the order of their
\* creation, none beyond stage 4, and only the latest may be unsent
StagesInOrder(c) ==
    \A i \in RowsOf(Store, c) :
        /\ outreach[i].stage = Cardinality({ k \in RowsOf(Store, c) : k <= i })
        /\ outreach[i].stage <= 4
        /\ i # LastOutreach(Store, c) => outreach[i].status = "sent"

\* a row added for the contact beyond stage 1 comes 3 days or more after the
\* previous stage was sent
DraftedAfterGap(c) ==
    \A i \in RowsOf(Store', c) \ RowsOf(Store, c) :
        outreach'[i].stage > 1 =>
            LET last == outreach[LastOutreach(Store, c)]
            IN /\ last.status = "sent"
               /\ last.stage = outreach'[i].stage - 1
               /\ now - last.sent_at >= 3

\* the sequence of the contact has ended after four sent stages
SequenceDone(c) ==
    /\ contacts[c].status = "completed"
    /\ Cardinality(RowsOf(Store, c)) = 4
    /\ \A i \in RowsOf(Store, c) : outreach[i].status = "sent"

RatioPerfInputs ==
    { Perf(20, 2000, 5000, 0), Perf(20, 1450, 5000, 0), Perf(20, 1400, 5000, 0),
      Perf(20, 750, 5000, 0), Perf(20, 2000, 3000, 0), Perf(20, 2000, 3001, 1000),
      Perf(20, 600, 5000, 0), Perf(20, 550, 0, 0), Perf(20, 250, 0, 0),
      Perf(19, 100, 0, 0), Perf(10, 100, 0, 0), Perf(20, 100, 0, 0),
      Perf(9, 2000, 5000, 0) }

RatioReportInputs ==
    { [ global_reply_rate |-> g,
        signal_performance |->
            [ s \in SignalKeys |-> IF s = SignalOrder[1] THEN p ELSE NoPerf ],
        tier_performance |->
            [ high_priority |-> Tier(0, 0), medium_priority |-> Tier(0, 0) ] ] :
        g \in { 0, 1000 }, p \in RatioPerfInputs }

RatioNext ==
    \/ \E report \in RatioReportInputs, dry_run \in BOOLEAN :
            Refine(report, dry_run)
    \/ SaveOpen
    \/ SaveWrite
    \/ SaveClose
    \/ SaveFail

SpecRatio == InitAdjust /\ [][RatioNext]_vars

\* the delta the rules give for a reply rate, an interest rate and a sample
\* against a global reply rate (rates in hundredths of a percent); the ratio
\* is rate / ref, and round(log2(ratio)) >= 2 exactly when ratio^2 >= 8
RuleDelta(perf, global) ==
    LET ref == IF global >= 500 THEN global ELSE 500
        rate == perf.reply_rate_pct
    IN IF 10 * rate >= 15 * ref /\ perf.interest_rate_pct > 3000
       THEN (IF rate * rate >= 8 * ref * ref THEN 2 ELSE 1)
       ELSE IF 10 * rate >= 12 * ref THEN 1
       ELSE IF 10 * rate <= 5 * ref /\ perf.emails_sent >= 20 THEN -1
       ELSE 0

\* C38: for a signal with emails_sent >= MIN_SAMPLE_SIZE and an opt-out rate
\* of at most 10%, with ratio = reply rate / max(global reply rate, 5%), the
\* delta is min(2, max(1, round(log2(ratio)))) when ratio >= 1.5 and the
\* interest rate is above 30%, otherwise +1 when ratio >= 1.2, otherwise -1
\* when ratio <= 0.5 and emails_sent >= 20, otherwise 0: refine reports a
\* change of exactly that delta for the signal, and none when it is 0.
C38_DeltaByRatio ==
    lastRefine.called =>
        \A s \in SignalKeys :
            LET perf == lastRefine.report.signal_performance[s]
                changes == lastRefine.summary.changes
                delta == RuleDelta(perf, lastRefine.report.global_reply_rate)
            IN (/\ perf.present
                /\ perf.emails_sent >= 10
                /\ perf.opt_out_rate_pct <= 1000) =>
                    /\ Cardinality(ChangesFor(s)) = (IF delta = 0 THEN 0 ELSE 1)
                    /\ \A i \in ChangesFor(s) : changes[i].delta = delta

\* C38 witness: refine has just raised a signal by 1 for a ratio of 2.8 with
\* an interest rate of 50%, after a saved cycle that raised it by 2 as a
\* strong performer.
C38_Witness ==
    /\ lastRefine.called
    /\ lastRefine.report.global_reply_rate = 0
    /\ lastRefine.report.signal_performance[SignalOrder[1]].reply_rate_pct = 1400
    /\ \E i \in ChangesFor(SignalOrder[1]) :
            lastRefine.summary.changes[i].delta = 1
    /\ \E k \in 1..Len(cfgFile.cfg.history) :
            /\ cfgFile.cfg.history[k].global_reply_rate = 0
            /\ \E i \in 1..Len(cfgFile.cfg.history[k].changes) :
                    /\ cfgFile.cfg.history[k].changes[i].delta = 2
                    /\ cfgFile.cfg.history[k].changes[i].reason = "Strong performer"

(***************************************************************************)
(* Claim on a contact whose mail could not be delivered                    *)
(***************************************************************************)
\* outreach_task runs pass after pass with failing sends while the outreach
\* stage of full_pipeline_cycle_task runs contact by contact
StaleNext ==
    \/ RunSequence("outreach_task")
    \/ \E oks \in SUBSET (1..MaxOutreach) : SendDrafts("outreach_task", oks)
    \/ RunBegin("full_pipeline_cycle_task")
    \/ RunStep("full_pipeline_cycle_task")
    \/ RunCommit("full_pipeline_cycle_task")
    \/ SendBegin("full_pipeline_cycle_task")
    \/ \E ok \in BOOLEAN : SendStep("full_pipeline_cycle_task", ok)
    \/ SendCommit("full_pipeline_cycle_task")

SpecStale == InitSequence /\ [][StaleNext]_vars

\* the contact is active and its latest Outreach is failed or bounced
Undelivered(c) ==
    /\ contacts[c].status = "active"
    /\ LastOutreach(Store, c) # 0
    /\ outreach[LastOutreach(Store, c)].status \in { "failed", "bounced" }

\* the sequencing pass sets the contact to bounced and adds no row for it
SetBounced(c) ==
    /\ contacts'[c] = [contacts[c] EXCEPT !.status = "bounced"]
    /\ RowsOf(Store', c) = RowsOf(Store, c)

\* C39: for an active contact whose latest Outreach is failed or bounced,
\* process_contact sets the status to bounced and creates no Outreach row,
\* and no later sequencing cycle drafts for that contact: while the contact
\* is bounced no Outreach row is added for it.
C39_BouncedStopsSequence ==
    /\ [][ \A c \in Contacts :
                (Undelivered(c) /\ SequencingPass) => SetBounced(c) ]_vars
    /\ [][ \A c \in Contacts :
                contacts[c].status = "bounced" =>
                    RowsOf(Store', c) = RowsOf(Store, c) ]_vars

====
